---------------------------- MODULE Spec2Model ----------------------------
(***************************************************************************)
(* A model of secsgml_rs: the SEC SGML filing parser and its USTAR writer. *)
(* Byte strings and Rust strings are sequences of integers (a byte, or a   *)
(* character's code point); a HashMap is a function on its set of keys.    *)
(***************************************************************************)
EXTENDS Integers, Sequences, FiniteSets, TLC

VARIABLES
    key,        \* standardize_key: the argument
    keyOut,     \* standardize_key(key), once computed
    keyOut2,    \* standardize_key(keyOut), once computed
    keyPc,      \* "idle", "in", "once", "twice"
    uuBytes,    \* UU round trip: the bytes to encode
    uuText,     \* their uuencoded text
    uuOut,      \* decode_uuencoded(uuText)
    uuPc,       \* "idle", "in", "encoded", "decoded"
    root,       \* header tree: the root map being built
    path,       \* header tree: the current-path stack of section keys
    rootHist,   \* history: per key, the values inserted at the root scope
    lineNo,     \* header tree: the number of header lines processed
    treePc,     \* "idle", "lines"
    sgml,       \* parse_sgml: data, the input bytes
    opts,       \* parse_sgml: options, the ParseOptions
    fmt,        \* parse_sgml: format, the detected SubmissionFormat
    headerFields,   \* parse_sgml: submission_meta.fields
    docBoundaries,  \* parse_sgml: doc_boundaries, 0-based <<start, end>>
    parsedDocs, \* parse_sgml: per span, None or Some(the parse result)
    parsed,     \* parse_sgml: None, or Some(the Result returned)
    parsePc,    \* "idle", "in", "docs", "done", "panicked"
    submission, \* write_to_tar_writer: the ParsedSubmission
    hashOrder,  \* the iteration order of the HashMaps' keys
    tarMetadata,  \* write_to_tar_writer: metadata, the clone being written
    metadataSize, \* calculate_tar_positions: metadata_size
    archive,    \* the runs written to the writer so far
    docIndex,   \* write_to_tar_writer: the next document to write
    tarPc,      \* "idle", "start", "calculated", "docs", "done", "panicked"
    callArgs,   \* a call of a pure function: its arguments
    callRet,    \* a call of a pure function: None, or Some(what it returned)
    callPc      \* "idle", "in", "returned", "panicked"

keyVars == <<key, keyOut, keyOut2, keyPc>>
uuVars == <<uuBytes, uuText, uuOut, uuPc>>
treeVars == <<root, path, rootHist, lineNo, treePc>>
parseVars == <<sgml, opts, fmt, headerFields, docBoundaries, parsedDocs, parsed, parsePc>>
tarVars == <<submission, hashOrder, tarMetadata, metadataSize, archive, docIndex, tarPc>>
callVars == <<callArgs, callRet, callPc>>
vars == <<keyVars, uuVars, treeVars, parseVars, tarVars, callVars>>

\* The variables a specification leaves alone.
notKey == <<uuVars, treeVars, parseVars, tarVars, callVars>>
notUu == <<keyVars, treeVars, parseVars, tarVars, callVars>>
notTree == <<keyVars, uuVars, parseVars, tarVars, callVars>>
notParse == <<keyVars, uuVars, treeVars, tarVars, callVars>>
notTar == <<keyVars, uuVars, treeVars, parseVars, callVars>>
notCall == <<keyVars, uuVars, treeVars, parseVars, tarVars>>

(***************************************************************************)
(* Byte and character helpers (parse.rs, Rust core)                        *)
(***************************************************************************)

\* The bound on the length of generated strings.
MaxLen == 3

RECURSIVE SeqsUpTo(_, _)
\* All sequences over alphabet A of length at most n.
SeqsUpTo(A, n) ==
    IF n = 0 THEN {<<>>}
    ELSE LET S == SeqsUpTo(A, n - 1)
         IN  S \cup {Append(s, a) : s \in {x \in S : Len(x) = n - 1}, a \in A}

\* Option: None and Some(x).
None == <<FALSE>>
Some(x) == <<TRUE, x>>
IsSome(o) == o[1]
Unwrap(o) == o[2]

\* u8::is_ascii_digit
IsAsciiDigit(b) == b >= 48 /\ b <= 57

\* char::is_whitespace, on the code points below 256
IsWhitespace(c) == (c >= 9 /\ c <= 13) \/ c = 32 \/ c = 133 \/ c = 160

\* char::to_ascii_lowercase
ToAsciiLowercase(c) == IF c >= 65 /\ c <= 90 THEN c + 32 ELSE c

\* char::to_ascii_uppercase
ToAsciiUppercase(c) == IF c >= 97 /\ c <= 122 THEN c - 32 ELSE c

\* str::eq_ignore_ascii_case
EqIgnoreAsciiCase(a, b) ==
    /\ Len(a) = Len(b)
    /\ \A i \in 1..Len(a) : ToAsciiLowercase(a[i]) = ToAsciiLowercase(b[i])

(***************************************************************************)
(* header_mappings.rs                                                      *)
(***************************************************************************)

\* get_header_mappings: the table, one entry per m.insert line.
HeaderMappings ==
    <<
       \* line 30: "paper" -> "paper"
       [from |-> <<112,97,112,101,114>>,
        to |-> <<112,97,112,101,114>>, regex |-> "none"],
       \* line 31: "accession number" -> "accession-number"
       [from |-> <<97,99,99,101,115,115,105,111,110,32,110,117,109,98,101,114>>,
        to |-> <<97,99,99,101,115,115,105,111,110,45,110,117,109,98,101,114>>, regex |-> "none"],
       \* line 32: "conformed submission type" -> "type"
       [from |-> <<99,111,110,102,111,114,109,101,100,32,115,117,98,109,105,115,115,105,111,110,32,116,121,112,101>>,
        to |-> <<116,121,112,101>>, regex |-> "none"],
       \* line 33: "public document count" -> "public-document-count"
       [from |-> <<112,117,98,108,105,99,32,100,111,99,117,109,101,110,116,32,99,111,117,110,116>>,
        to |-> <<112,117,98,108,105,99,45,100,111,99,117,109,101,110,116,45,99,111,117,110,116>>, regex |-> "none"],
       \* line 34: "public-document_count" -> "public-document-count"
       [from |-> <<112,117,98,108,105,99,45,100,111,99,117,109,101,110,116,95,99,111,117,110,116>>,
        to |-> <<112,117,98,108,105,99,45,100,111,99,117,109,101,110,116,45,99,111,117,110,116>>, regex |-> "none"],
       \* line 35: "conformed period of report" -> "period"
       [from |-> <<99,111,110,102,111,114,109,101,100,32,112,101,114,105,111,100,32,111,102,32,114,101,112,111,114,116>>,
        to |-> <<112,101,114,105,111,100>>, regex |-> "none"],
       \* line 36: "filed as of date" -> "filing-date"
       [from |-> <<102,105,108,101,100,32,97,115,32,111,102,32,100,97,116,101>>,
        to |-> <<102,105,108,105,110,103,45,100,97,116,101>>, regex |-> "none"],
       \* line 37: "date as of change" -> "date-of-filing-date-change"
       [from |-> <<100,97,116,101,32,97,115,32,111,102,32,99,104,97,110,103,101>>,
        to |-> <<100,97,116,101,45,111,102,45,102,105,108,105,110,103,45,100,97,116,101,45,99,104,97,110,103,101>>, regex |-> "none"],
       \* line 38: "effectiveness date" -> "effectiveness-date"
       [from |-> <<101,102,102,101,99,116,105,118,101,110,101,115,115,32,100,97,116,101>>,
        to |-> <<101,102,102,101,99,116,105,118,101,110,101,115,115,45,100,97,116,101>>, regex |-> "none"],
       \* line 39: "filer" -> "filer"
       [from |-> <<102,105,108,101,114>>,
        to |-> <<102,105,108,101,114>>, regex |-> "none"],
       \* line 40: "company data" -> "company-data"
       [from |-> <<99,111,109,112,97,110,121,32,100,97,116,97>>,
        to |-> <<99,111,109,112,97,110,121,45,100,97,116,97>>, regex |-> "none"],
       \* line 41: "company conformed name" -> "conformed-name"
       [from |-> <<99,111,109,112,97,110,121,32,99,111,110,102,111,114,109,101,100,32,110,97,109,101>>,
        to |-> <<99,111,110,102,111,114,109,101,100,45,110,97,109,101>>, regex |-> "none"],
       \* line 42: "central index key" -> "cik"
       [from |-> <<99,101,110,116,114,97,108,32,105,110,100,101,120,32,107,101,121>>,
        to |-> <<99,105,107>>, regex |-> "none"],
       \* line 43: "state of incorporation" -> "state-of-incorporation"
       [from |-> <<115,116,97,116,101,32,111,102,32,105,110,99,111,114,112,111,114,97,116,105,111,110>>,
        to |-> <<115,116,97,116,101,45,111,102,45,105,110,99,111,114,112,111,114,97,116,105,111,110>>, regex |-> "none"],
       \* line 44: "fiscal year end" -> "fiscal-year-end"
       [from |-> <<102,105,115,99,97,108,32,121,101,97,114,32,101,110,100>>,
        to |-> <<102,105,115,99,97,108,45,121,101,97,114,45,101,110,100>>, regex |-> "none"],
       \* line 45: "filing values" -> "filing-values"
       [from |-> <<102,105,108,105,110,103,32,118,97,108,117,101,115>>,
        to |-> <<102,105,108,105,110,103,45,118,97,108,117,101,115>>, regex |-> "none"],
       \* line 46: "form type" -> "form-type"
       [from |-> <<102,111,114,109,32,116,121,112,101>>,
        to |-> <<102,111,114,109,45,116,121,112,101>>, regex |-> "none"],
       \* line 47: "sec act" -> "act"
       [from |-> <<115,101,99,32,97,99,116>>,
        to |-> <<97,99,116>>, regex |-> "act"],
       \* line 48: "sec file number" -> "file-number"
       [from |-> <<115,101,99,32,102,105,108,101,32,110,117,109,98,101,114>>,
        to |-> <<102,105,108,101,45,110,117,109,98,101,114>>, regex |-> "none"],
       \* line 49: "film number" -> "film-number"
       [from |-> <<102,105,108,109,32,110,117,109,98,101,114>>,
        to |-> <<102,105,108,109,45,110,117,109,98,101,114>>, regex |-> "none"],
       \* line 50: "business address" -> "business-address"
       [from |-> <<98,117,115,105,110,101,115,115,32,97,100,100,114,101,115,115>>,
        to |-> <<98,117,115,105,110,101,115,115,45,97,100,100,114,101,115,115>>, regex |-> "none"],
       \* line 51: "street 1" -> "street1"
       [from |-> <<115,116,114,101,101,116,32,49>>,
        to |-> <<115,116,114,101,101,116,49>>, regex |-> "none"],
       \* line 52: "street 2" -> "street2"
       [from |-> <<115,116,114,101,101,116,32,50>>,
        to |-> <<115,116,114,101,101,116,50>>, regex |-> "none"],
       \* line 53: "city" -> "city"
       [from |-> <<99,105,116,121>>,
        to |-> <<99,105,116,121>>, regex |-> "none"],
       \* line 54: "state" -> "state"
       [from |-> <<115,116,97,116,101>>,
        to |-> <<115,116,97,116,101>>, regex |-> "none"],
       \* line 55: "zip" -> "zip"
       [from |-> <<122,105,112>>,
        to |-> <<122,105,112>>, regex |-> "none"],
       \* line 56: "business phone" -> "phone"
       [from |-> <<98,117,115,105,110,101,115,115,32,112,104,111,110,101>>,
        to |-> <<112,104,111,110,101>>, regex |-> "none"],
       \* line 57: "mail address" -> "mail-address"
       [from |-> <<109,97,105,108,32,97,100,100,114,101,115,115>>,
        to |-> <<109,97,105,108,45,97,100,100,114,101,115,115>>, regex |-> "none"],
       \* line 58: "former company" -> "former-company"
       [from |-> <<102,111,114,109,101,114,32,99,111,109,112,97,110,121>>,
        to |-> <<102,111,114,109,101,114,45,99,111,109,112,97,110,121>>, regex |-> "none"],
       \* line 59: "former conformed name" -> "former-conformed-name"
       [from |-> <<102,111,114,109,101,114,32,99,111,110,102,111,114,109,101,100,32,110,97,109,101>>,
        to |-> <<102,111,114,109,101,114,45,99,111,110,102,111,114,109,101,100,45,110,97,109,101>>, regex |-> "none"],
       \* line 60: "date of name change" -> "date-changed"
       [from |-> <<100,97,116,101,32,111,102,32,110,97,109,101,32,99,104,97,110,103,101>>,
        to |-> <<100,97,116,101,45,99,104,97,110,103,101,100>>, regex |-> "none"],
       \* line 61: "sros" -> "sros"
       [from |-> <<115,114,111,115>>,
        to |-> <<115,114,111,115>>, regex |-> "none"],
       \* line 62: "subject company" -> "subject-company"
       [from |-> <<115,117,98,106,101,99,116,32,99,111,109,112,97,110,121>>,
        to |-> <<115,117,98,106,101,99,116,45,99,111,109,112,97,110,121>>, regex |-> "none"],
       \* line 63: "standard industrial classification" -> "assigned-sic"
       [from |-> <<115,116,97,110,100,97,114,100,32,105,110,100,117,115,116,114,105,97,108,32,99,108,97,115,115,105,102,105,99,97,116,105,111,110>>,
        to |-> <<97,115,115,105,103,110,101,100,45,115,105,99>>, regex |-> "bracket_digits"],
       \* line 64: "irs number" -> "irs-number"
       [from |-> <<105,114,115,32,110,117,109,98,101,114>>,
        to |-> <<105,114,115,45,110,117,109,98,101,114>>, regex |-> "none"],
       \* line 65: "filed by" -> "filed-by"
       [from |-> <<102,105,108,101,100,32,98,121>>,
        to |-> <<102,105,108,101,100,45,98,121>>, regex |-> "none"],
       \* line 66: "items" -> "items"
       [from |-> <<105,116,101,109,115>>,
        to |-> <<105,116,101,109,115>>, regex |-> "none"],
       \* line 67: "group members" -> "group-members"
       [from |-> <<103,114,111,117,112,32,109,101,109,98,101,114,115>>,
        to |-> <<103,114,111,117,112,45,109,101,109,98,101,114,115>>, regex |-> "none"],
       \* line 68: "organization name" -> "organization-name"
       [from |-> <<111,114,103,97,110,105,122,97,116,105,111,110,32,110,97,109,101>>,
        to |-> <<111,114,103,97,110,105,122,97,116,105,111,110,45,110,97,109,101>>, regex |-> "none"],
       \* line 69: "recieved date" -> "recieved-date"
       [from |-> <<114,101,99,105,101,118,101,100,32,100,97,116,101>>,
        to |-> <<114,101,99,105,101,118,101,100,45,100,97,116,101>>, regex |-> "none"],
       \* line 70: "action date" -> "action-date"
       [from |-> <<97,99,116,105,111,110,32,100,97,116,101>>,
        to |-> <<97,99,116,105,111,110,45,100,97,116,101>>, regex |-> "none"],
       \* line 71: "non us state territory" -> "non-us-state-territory"
       [from |-> <<110,111,110,32,117,115,32,115,116,97,116,101,32,116,101,114,114,105,116,111,114,121>>,
        to |-> <<110,111,110,45,117,115,45,115,116,97,116,101,45,116,101,114,114,105,116,111,114,121>>, regex |-> "none"],
       \* line 72: "address is a non us location" -> "address-is-a-non-us-location"
       [from |-> <<97,100,100,114,101,115,115,32,105,115,32,97,32,110,111,110,32,117,115,32,108,111,99,97,116,105,111,110>>,
        to |-> <<97,100,100,114,101,115,115,45,105,115,45,97,45,110,111,110,45,117,115,45,108,111,99,97,116,105,111,110>>, regex |-> "none"],
       \* line 73: "ein" -> "ein"
       [from |-> <<101,105,110>>,
        to |-> <<101,105,110>>, regex |-> "none"],
       \* line 74: "class-contract-ticker-symbol" -> "class-contract-ticker-symbol"
       [from |-> <<99,108,97,115,115,45,99,111,110,116,114,97,99,116,45,116,105,99,107,101,114,45,115,121,109,98,111,108>>,
        to |-> <<99,108,97,115,115,45,99,111,110,116,114,97,99,116,45,116,105,99,107,101,114,45,115,121,109,98,111,108>>, regex |-> "none"],
       \* line 75: "class-contract-name" -> "class-contract-name"
       [from |-> <<99,108,97,115,115,45,99,111,110,116,114,97,99,116,45,110,97,109,101>>,
        to |-> <<99,108,97,115,115,45,99,111,110,116,114,97,99,116,45,110,97,109,101>>, regex |-> "none"],
       \* line 76: "class-contract-id" -> "class-contract-id"
       [from |-> <<99,108,97,115,115,45,99,111,110,116,114,97,99,116,45,105,100>>,
        to |-> <<99,108,97,115,115,45,99,111,110,116,114,97,99,116,45,105,100>>, regex |-> "none"],
       \* line 77: "sec-document" -> "sec-document"
       [from |-> <<115,101,99,45,100,111,99,117,109,101,110,116>>,
        to |-> <<115,101,99,45,100,111,99,117,109,101,110,116>>, regex |-> "none"],
       \* line 78: "sec-header" -> "sec-header"
       [from |-> <<115,101,99,45,104,101,97,100,101,114>>,
        to |-> <<115,101,99,45,104,101,97,100,101,114>>, regex |-> "none"],
       \* line 79: "acceptance-datetime" -> "acceptance-datetime"
       [from |-> <<97,99,99,101,112,116,97,110,99,101,45,100,97,116,101,116,105,109,101>>,
        to |-> <<97,99,99,101,112,116,97,110,99,101,45,100,97,116,101,116,105,109,101>>, regex |-> "none"],
       \* line 80: "series-and-classes-contracts-data" -> "series-and-classes-contracts-data"
       [from |-> <<115,101,114,105,101,115,45,97,110,100,45,99,108,97,115,115,101,115,45,99,111,110,116,114,97,99,116,115,45,100,97,116,97>>,
        to |-> <<115,101,114,105,101,115,45,97,110,100,45,99,108,97,115,115,101,115,45,99,111,110,116,114,97,99,116,115,45,100,97,116,97>>, regex |-> "none"],
       \* line 81: "existing-series-and-classes-contracts" -> "existing-series-and-classes-contracts"
       [from |-> <<101,120,105,115,116,105,110,103,45,115,101,114,105,101,115,45,97,110,100,45,99,108,97,115,115,101,115,45,99,111,110,116,114,97,99,116,115>>,
        to |-> <<101,120,105,115,116,105,110,103,45,115,101,114,105,101,115,45,97,110,100,45,99,108,97,115,115,101,115,45,99,111,110,116,114,97,99,116,115>>, regex |-> "none"],
       \* line 82: "merger-series-and-classes-contracts" -> "merger-series-and-classes-contracts"
       [from |-> <<109,101,114,103,101,114,45,115,101,114,105,101,115,45,97,110,100,45,99,108,97,115,115,101,115,45,99,111,110,116,114,97,99,116,115>>,
        to |-> <<109,101,114,103,101,114,45,115,101,114,105,101,115,45,97,110,100,45,99,108,97,115,115,101,115,45,99,111,110,116,114,97,99,116,115>>, regex |-> "none"],
       \* line 83: "new-series-and-classes-contracts" -> "new-series-and-classes-contracts"
       [from |-> <<110,101,119,45,115,101,114,105,101,115,45,97,110,100,45,99,108,97,115,115,101,115,45,99,111,110,116,114,97,99,116,115>>,
        to |-> <<110,101,119,45,115,101,114,105,101,115,45,97,110,100,45,99,108,97,115,115,101,115,45,99,111,110,116,114,97,99,116,115>>, regex |-> "none"],
       \* line 84: "series" -> "series"
       [from |-> <<115,101,114,105,101,115>>,
        to |-> <<115,101,114,105,101,115>>, regex |-> "none"],
       \* line 85: "owner-cik" -> "owner-cik"
       [from |-> <<111,119,110,101,114,45,99,105,107>>,
        to |-> <<111,119,110,101,114,45,99,105,107>>, regex |-> "none"],
       \* line 86: "series-id" -> "series-id"
       [from |-> <<115,101,114,105,101,115,45,105,100>>,
        to |-> <<115,101,114,105,101,115,45,105,100>>, regex |-> "none"],
       \* line 87: "series-name" -> "series-name"
       [from |-> <<115,101,114,105,101,115,45,110,97,109,101>>,
        to |-> <<115,101,114,105,101,115,45,110,97,109,101>>, regex |-> "none"],
       \* line 88: "acquiring-data" -> "acquiring-data"
       [from |-> <<97,99,113,117,105,114,105,110,103,45,100,97,116,97>>,
        to |-> <<97,99,113,117,105,114,105,110,103,45,100,97,116,97>>, regex |-> "none"],
       \* line 89: "target-data" -> "target-data"
       [from |-> <<116,97,114,103,101,116,45,100,97,116,97>>,
        to |-> <<116,97,114,103,101,116,45,100,97,116,97>>, regex |-> "none"],
       \* line 90: "new-classes-contracts" -> "new-classes-contracts"
       [from |-> <<110,101,119,45,99,108,97,115,115,101,115,45,99,111,110,116,114,97,99,116,115>>,
        to |-> <<110,101,119,45,99,108,97,115,115,101,115,45,99,111,110,116,114,97,99,116,115>>, regex |-> "none"],
       \* line 91: "new-series" -> "new-series"
       [from |-> <<110,101,119,45,115,101,114,105,101,115>>,
        to |-> <<110,101,119,45,115,101,114,105,101,115>>, regex |-> "none"],
       \* line 92: "relationship" -> "relationship"
       [from |-> <<114,101,108,97,116,105,111,110,115,104,105,112>>,
        to |-> <<114,101,108,97,116,105,111,110,115,104,105,112>>, regex |-> "none"]
    >>

\* The entries whose key equals k up to ASCII case.  The table's keys are
\* lowercase and distinct, so the HashMap's iteration order cannot change
\* which entry the loop of standardize_key returns.
MappingHits(k) ==
    {i \in 1..Len(HeaderMappings) : EqIgnoreAsciiCase(k, HeaderMappings[i].from)}

RECURSIVE KebabFromUpper(_, _, _, _)
\* KebabFrom with the characters upper-cased instead of lower-cased.
KebabFromUpper(k, i, result, prevWasSpace) ==
    IF i > Len(k) THEN result
    ELSE IF IsWhitespace(k[i])
         THEN KebabFromUpper(k, i + 1,
                             IF ~prevWasSpace /\ result # <<>>
                             THEN Append(result, 45) ELSE result,
                             TRUE)
         ELSE KebabFromUpper(k, i + 1, Append(result, ToAsciiUppercase(k[i])), FALSE)

RECURSIVE KebabFromNoCollapse(_, _, _, _)
\* KebabFrom without the prev_was_space test: one '-' per whitespace character.
KebabFromNoCollapse(k, i, result, prevWasSpace) ==
    IF i > Len(k) THEN result
    ELSE IF IsWhitespace(k[i])
         THEN KebabFromNoCollapse(k, i + 1,
                                  IF result # <<>>
                                  THEN Append(result, 45) ELSE result,
                                  TRUE)
         ELSE KebabFromNoCollapse(k, i + 1, Append(result, ToAsciiLowercase(k[i])), FALSE)

RECURSIVE KebabFrom(_, _, _, _)
\* The loop of standardize_key over key[i..]: result so far and prev_was_space.
KebabFrom(k, i, result, prevWasSpace) ==
    IF i > Len(k) THEN result
    ELSE IF IsWhitespace(k[i])
         THEN KebabFrom(k, i + 1,
                        IF ~prevWasSpace /\ result # <<>>
                        THEN Append(result, 45) ELSE result,
                        TRUE)
         ELSE KebabFrom(k, i + 1, Append(result, ToAsciiLowercase(k[i])), FALSE)

\* standardize_key
StandardizeKey(k) ==
    IF MappingHits(k) # {}
    THEN HeaderMappings[CHOOSE i \in MappingHits(k) : TRUE].to
    ELSE KebabFrom(k, 1, <<>>, FALSE)

(***************************************************************************)
(* uudecode.rs                                                             *)
(***************************************************************************)

B_begin_sp == <<98,101,103,105,110,32>>  \* "begin "
B_begin == <<98,101,103,105,110>>  \* "begin"
B_end == <<101,110,100>>  \* "end"

\* s[from..] with a 0-based start, as a Rust slice.
SliceFrom(s, from) == SubSeq(s, from + 1, Len(s))

\* s[from..to] with 0-based bounds, as a Rust slice.
Slice(s, from, to) == SubSeq(s, from + 1, to)

\* <[u8]>::starts_with, str::starts_with
StartsWith(s, p) == Len(s) >= Len(p) /\ SubSeq(s, 1, Len(p)) = p

\* <[u8]>::ends_with
EndsWith(s, p) == Len(s) >= Len(p) /\ SubSeq(s, Len(s) - Len(p) + 1, Len(s)) = p

\* 2^n
RECURSIVE Pow2(_)
Pow2(n) == IF n = 0 THEN 1 ELSE 2 * Pow2(n - 1)

RECURSIVE A2bLoop(_, _, _, _, _, _)
\* The while loop of a2b_uu: ascii_idx, leftbits, leftchar, remaining and
\* bin_data so far.  The result is Ok(bin_data) or Err(IllegalChar).
A2bLoop(data, idx, leftbits, leftchar, remaining, bin) ==
    IF remaining = 0 THEN [ok |-> TRUE, bytes |-> bin]
    ELSE LET inRange == idx < Len(data)
             byte == data[idx + 1]
             illegal == inRange /\ byte # 10 /\ byte # 13 /\ (byte < 32 \/ byte > 96)
             thisCh == IF ~inRange THEN 0
                       ELSE IF byte = 10 \/ byte = 13 THEN 0
                       ELSE (byte - 32) % 64
             idx2 == IF inRange THEN idx + 1 ELSE idx
             lc == leftchar * 64 + thisCh
             lb == leftbits + 6
         IN  IF illegal THEN [ok |-> FALSE, err |-> "IllegalChar"]
             ELSE IF lb >= 8
                  THEN A2bLoop(data, idx2, lb - 8, lc % Pow2(lb - 8), remaining - 1,
                               Append(bin, (lc \div Pow2(lb - 8)) % 256))
                  ELSE A2bLoop(data, idx2, lb, lc, remaining, bin)

\* a2b_uu: one line of uuencoded data to bytes, strictly.
A2bUu(data) ==
    IF data = <<>> THEN [ok |-> TRUE, bytes |-> <<>>]
    ELSE LET binLen == ((data[1] - 32) % 256) % 64
             decoded == A2bLoop(data, 1, 0, 0, binLen, <<>>)
             charsNeeded == (binLen * 8 + 5) \div 6
             startCheck == 1 + charsNeeded
             garbage == \E i \in (startCheck + 1)..Len(data) :
                            data[i] \notin {32, 96, 10, 13}
         IN  IF ~decoded.ok THEN decoded
             ELSE IF garbage THEN [ok |-> FALSE, err |-> "TrailingGarbage"]
             ELSE decoded

RECURSIVE TrimStartIdx(_, _)
\* The 0-based index of the first byte of data, from i on, that is not
\* space, tab, LF or CR; Len(data) when there is none.
TrimStartIdx(data, i) ==
    IF i >= Len(data) THEN Len(data)
    ELSE IF data[i + 1] \in {32, 9, 10, 13} THEN TrimStartIdx(data, i + 1)
    ELSE i

\* trim_start (uudecode.rs and parse.rs)
TrimStart(data) == SliceFrom(data, TrimStartIdx(data, 0))

\* check_begin_line
CheckBeginLine(line) ==
    /\ StartsWith(line, B_begin_sp)
    /\ Len(line) >= 11
    /\ \A i \in 7..9 : IsAsciiDigit(line[i])

\* memchr: the 0-based index of the first byte b of data at or after i, or -1.
IndexOfByte(data, b, i) ==
    LET at == {j \in i..(Len(data) - 1) : data[j + 1] = b}
    IN  IF at = {} THEN -1 ELSE CHOOSE j \in at : \A k \in at : j <= k

\* is_uuencoded
IsUuencoded(content) ==
    LET c == TrimStart(content)
        nl == IndexOfByte(c, 10, 0)
    IN  \/ CheckBeginLine(c)
        \/ nl >= 0 /\ CheckBeginLine(SliceFrom(c, nl + 1))

RECURSIVE SplitOn(_, _)
\* <[u8]>::split: the pieces of data between the bytes equal to b.
SplitOn(data, b) ==
    LET i == IndexOfByte(data, b, 0)
    IN  IF i < 0 THEN <<data>>
        ELSE <<Slice(data, 0, i)>> \o SplitOn(SliceFrom(data, i + 1), b)

\* str::lines: the pieces between line feeds, an empty last piece dropped,
\* and a carriage return before a line feed dropped with it.
Lines(text) ==
    LET pieces == SplitOn(text, 10)
        n == Len(pieces)
        kept == IF pieces[n] = <<>> THEN n - 1 ELSE n
        strip(j) == LET p == pieces[j]
                    IN  IF j < n /\ p # <<>> /\ p[Len(p)] = 13
                        THEN SubSeq(p, 1, Len(p) - 1) ELSE p
    IN  [j \in 1..kept |-> strip(j)]

RECURSIVE TrimEndMatches(_, _)
\* str::trim_end_matches(c)
TrimEndMatches(s, c) ==
    IF s # <<>> /\ s[Len(s)] = c THEN TrimEndMatches(SubSeq(s, 1, Len(s) - 1), c)
    ELSE s

\* The characters of line with a code from 32 to hi.
CleanLine(line, hi) == SelectSeq(line, LAMBDA c : c >= 32 /\ c <= hi)

\* decode_uu_line
DecodeUuLine(line) ==
    LET cleanLine == CleanLine(line, 95)
        expectedBytes == (cleanLine[1] - 32) % 64
        nbytes == (expectedBytes * 4 + 5) \div 3
        truncated == SubSeq(cleanLine, 1, IF nbytes + 1 < Len(cleanLine)
                                          THEN nbytes + 1 ELSE Len(cleanLine))
        r == A2bUu(truncated)
    IN  IF cleanLine = <<>> THEN None
        ELSE IF r.ok THEN Some(r.bytes) ELSE None

RECURSIVE FirstBeginLine(_, _)
\* The index of the first line from i on that starts with "begin"; 0 if none.
FirstBeginLine(lines, i) ==
    IF i > Len(lines) THEN 0
    ELSE IF StartsWith(lines[i], B_begin) THEN i
    ELSE FirstBeginLine(lines, i + 1)

RECURSIVE DecodeDataLinesPastBlank(_, _, _)
\* The data-line loop from line i on, were it to stop at "end" only.
DecodeDataLinesPastBlank(lines, i, result) ==
    IF i > Len(lines) THEN result
    ELSE LET stripped == TrimEndMatches(lines[i], 13)
             d == DecodeUuLine(stripped)
         IN  IF stripped = B_end THEN result
             ELSE DecodeDataLinesPastBlank(lines, i + 1,
                                           IF IsSome(d) THEN result \o Unwrap(d)
                                           ELSE result)

RECURSIVE DecodeDataLines(_, _, _)
\* The data-line loop of decode_uuencoded from line i on.
DecodeDataLines(lines, i, result) ==
    IF i > Len(lines) THEN result
    ELSE LET stripped == TrimEndMatches(lines[i], 13)
             d == DecodeUuLine(stripped)
         IN  IF stripped = <<>> \/ stripped = B_end THEN result
             ELSE DecodeDataLines(lines, i + 1,
                                  IF IsSome(d) THEN result \o Unwrap(d) ELSE result)

\* decode_uuencoded
DecodeUuencoded(content) ==
    LET lines == Lines(content)
        b == FirstBeginLine(lines, 1)
    IN  IF b = 0 THEN <<>> ELSE DecodeDataLines(lines, b + 1, <<>>)

(***************************************************************************)
(* The standard UU encoder (the counterpart the decoder is checked with)   *)
(***************************************************************************)

\* One encoded character: a 6-bit value plus 32, and a backtick for 0.
UuEncChar(v) == IF v = 0 THEN 96 ELSE 32 + v

\* The byte of b at 1-based position i, 0 past the end (the padding).
ByteOrZero(b, i) == IF i <= Len(b) THEN b[i] ELSE 0

\* The four characters of the three bytes of b from position i on.
UuEncGroup(b, i) ==
    LET b1 == ByteOrZero(b, i)
        b2 == ByteOrZero(b, i + 1)
        b3 == ByteOrZero(b, i + 2)
    IN  << UuEncChar(b1 \div 4),
           UuEncChar((b1 % 4) * 16 + b2 \div 16),
           UuEncChar((b2 % 16) * 4 + b3 \div 64),
           UuEncChar(b3 % 64) >>

RECURSIVE UuEncGroups(_, _)
UuEncGroups(b, i) ==
    IF i > Len(b) THEN <<>> ELSE UuEncGroup(b, i) \o UuEncGroups(b, i + 3)

\* One data line of at most 45 bytes: the length character, the groups, LF.
UuEncLine(b) == <<32 + Len(b)>> \o UuEncGroups(b, 1) \o <<10>>

RECURSIVE UuEncLines(_)
UuEncLines(b) ==
    IF b = <<>> THEN <<>>
    ELSE IF Len(b) <= 45 THEN UuEncLine(b)
    ELSE UuEncLine(SubSeq(b, 1, 45)) \o UuEncLines(SubSeq(b, 46, Len(b)))

\* "begin 644 f", the data lines, the backtick sentinel line, "end".
UuEncode(b) ==
    <<98,101,103,105,110,32,54,52,52,32,102,10>> \o UuEncLines(b)
        \o <<96,10>> \o B_end \o <<10>>

(***************************************************************************)
(* types.rs: MetadataValue; parse.rs: the header tree                      *)
(***************************************************************************)

\* MetadataValue::String, ::List and ::Object.  An Object holds a HashMap,
\* a function on its set of keys.
MvString(s) == [t |-> "String", s |-> s]
MvList(l) == [t |-> "List", l |-> l]
MvObject(m) == [t |-> "Object", o |-> m]

\* HashMap::new()
EmptyMap == <<>>

\* HashMap::insert
MapInsert(map, k, v) ==
    [x \in (DOMAIN map) \cup {k} |-> IF x = k THEN v ELSE map[x]]

\* insert_or_append with a plain HashMap::insert in every case.
InsertOrAppendOverwrite(map, k, v) == MapInsert(map, k, v)

\* insert_or_append
InsertOrAppend(map, k, v) ==
    IF k \in DOMAIN map
    THEN IF map[k].t = "List"
         THEN [map EXCEPT ![k] = MvList(Append(map[k].l, v))]
         ELSE [map EXCEPT ![k] = MvList(<<map[k], v>>)]
    ELSE MapInsert(map, k, v)

RECURSIVE InsertBelowFirst(_, _, _, _, _)
\* The navigation loop of insert_at_path entering a list by its first
\* element.
InsertBelowFirst(map, p, i, k, v) ==
    IF i > Len(p) THEN InsertOrAppend(map, k, v)
    ELSE IF p[i] \notin DOMAIN map THEN map
    ELSE LET cur == map[p[i]]
         IN  IF cur.t = "Object"
             THEN [map EXCEPT ![p[i]] = MvObject(InsertBelowFirst(cur.o, p, i + 1, k, v))]
             ELSE IF cur.t = "List" /\ cur.l # <<>> /\ cur.l[1].t = "Object"
             THEN [map EXCEPT ![p[i]] =
                      MvList([cur.l EXCEPT ![1] =
                                 MvObject(InsertBelowFirst(cur.l[1].o, p, i + 1, k, v))])]
             ELSE map

RECURSIVE InsertBelow(_, _, _, _, _)
\* The navigation loop of insert_at_path from path element i on, inside
\* map: the map with the value inserted where the path leads, or the map
\* unchanged where the path cannot be navigated.
InsertBelow(map, p, i, k, v) ==
    IF i > Len(p) THEN InsertOrAppend(map, k, v)
    ELSE IF p[i] \notin DOMAIN map THEN map
    ELSE LET cur == map[p[i]]
         IN  IF cur.t = "Object"
             THEN [map EXCEPT ![p[i]] = MvObject(InsertBelow(cur.o, p, i + 1, k, v))]
             ELSE IF cur.t = "List" /\ cur.l # <<>> /\ cur.l[Len(cur.l)].t = "Object"
             THEN [map EXCEPT ![p[i]] =
                      MvList([cur.l EXCEPT ![Len(cur.l)] =
                                 MvObject(InsertBelow(cur.l[Len(cur.l)].o, p, i + 1, k, v))])]
             ELSE map

\* insert_at_path
InsertAtPath(r, p, k, v) == InsertBelow(r, p, 1, k, v)

\* Vec::truncate
Truncate(s, n) == IF n < Len(s) THEN SubSeq(s, 1, n) ELSE s

(***************************************************************************)
(* parse.rs: bytes and strings                                             *)
(***************************************************************************)

DOC_START == <<60,68,79,67,85,77,69,78,84,62>>  \* "<DOCUMENT>"
DOC_END == <<60,47,68,79,67,85,77,69,78,84,62>>  \* "</DOCUMENT>"
TEXT_START == <<60,84,69,88,84,62>>  \* "<TEXT>"
TEXT_END == <<60,47,84,69,88,84,62>>  \* "</TEXT>"

RECURSIVE TrimEndLen(_, _)
\* The length of data[..n] without its trailing space, tab, LF and CR bytes.
TrimEndLen(data, n) ==
    IF n = 0 THEN 0
    ELSE IF data[n] \in {32, 9, 10, 13} THEN TrimEndLen(data, n - 1)
    ELSE n

\* trim_end
TrimEnd(data) == SubSeq(data, 1, TrimEndLen(data, Len(data)))

\* trim
Trim(data) == TrimEnd(TrimStart(data))

\* A continuation byte of UTF-8.
IsCont(b) == b >= 128 /\ b <= 191

\* The length of the UTF-8 character that starts at byte i (1-based) of b
\* as std::str::from_utf8 accepts it, or 0 when none starts there.
Utf8Len(b, i) ==
    LET c == b[i]
        has(n) == i + n <= Len(b) /\ \A j \in 1..n : IsCont(b[i + j])
    IN  IF c < 128 THEN 1
        ELSE IF c >= 194 /\ c <= 223 /\ has(1) THEN 2
        ELSE IF /\ c >= 224 /\ c <= 239 /\ has(2)
                /\ (c = 224 => b[i + 1] >= 160)
                /\ (c = 237 => b[i + 1] <= 159)
        THEN 3
        ELSE IF /\ c >= 240 /\ c <= 244 /\ has(3)
                /\ (c = 240 => b[i + 1] >= 144)
                /\ (c = 244 => b[i + 1] <= 143)
        THEN 4
        ELSE 0

\* The code point of the UTF-8 character that starts at byte i of b.
Utf8CodePoint(b, i) ==
    LET c == b[i]
        n == Utf8Len(b, i)
    IN  IF n = 1 THEN c
        ELSE IF n = 2 THEN (c - 192) * 64 + (b[i + 1] - 128)
        ELSE IF n = 3 THEN (c - 224) * 4096 + (b[i + 1] - 128) * 64 + (b[i + 2] - 128)
        ELSE (c - 240) * 262144 + (b[i + 1] - 128) * 4096
                 + (b[i + 2] - 128) * 64 + (b[i + 3] - 128)

\* Whether std::str::from_utf8 accepts b: every byte starts a character or
\* continues the character that starts one to three bytes before it.
Utf8Valid(b) ==
    \A i \in 1..Len(b) :
        IF IsCont(b[i])
        THEN \E n \in 1..3 : i - n >= 1 /\ Utf8Len(b, i - n) > n
        ELSE Utf8Len(b, i) > 0

RECURSIVE Utf8DecodeRange(_, _, _)
\* The code points of the characters of valid UTF-8 that start in b[lo..hi].
Utf8DecodeRange(b, lo, hi) ==
    IF lo > hi THEN <<>>
    ELSE IF lo = hi THEN (IF IsCont(b[lo]) THEN <<>> ELSE <<Utf8CodePoint(b, lo)>>)
    ELSE LET mid == (lo + hi) \div 2
         IN  Utf8DecodeRange(b, lo, mid) \o Utf8DecodeRange(b, mid + 1, hi)

\* std::str::from_utf8: Some(the code points) or None.
Utf8Decode(b) ==
    IF Utf8Valid(b) THEN Some(Utf8DecodeRange(b, 1, Len(b))) ELSE None

\* bytes_to_string: UTF-8 if valid, else every byte lifted to its code point.
BytesToString(data) ==
    LET d == Utf8Decode(data)
    IN  IF IsSome(d) THEN Unwrap(d) ELSE data

\* The UTF-8 bytes of one code point.
Utf8Char(c) ==
    IF c < 128 THEN <<c>>
    ELSE IF c < 2048 THEN <<192 + (c \div 64), 128 + (c % 64)>>
    ELSE IF c < 65536
    THEN <<224 + (c \div 4096), 128 + ((c \div 64) % 64), 128 + (c % 64)>>
    ELSE <<240 + (c \div 262144), 128 + ((c \div 4096) % 64),
           128 + ((c \div 64) % 64), 128 + (c % 64)>>

RECURSIVE ConcatRange(_, _, _)
\* The byte strings strs[lo..hi], one after the other.
ConcatRange(strs, lo, hi) ==
    IF lo > hi THEN <<>>
    ELSE IF lo = hi THEN strs[lo]
    ELSE LET mid == (lo + hi) \div 2
         IN  ConcatRange(strs, lo, mid) \o ConcatRange(strs, mid + 1, hi)

\* The byte strings of a sequence, one after the other.
Concat(strs) == ConcatRange(strs, 1, Len(strs))

\* String::into_bytes, str::as_bytes, str::len in bytes
StringBytes(str) == Concat([i \in 1..Len(str) |-> Utf8Char(str[i])])

(***************************************************************************)
(* header_mappings.rs: transform_value                                     *)
(***************************************************************************)

RECURSIVE FindFrom(_, _, _)
\* The 0-based index of the first occurrence of needle in hay at or after
\* i, or -1.
FindFrom(hay, needle, i) ==
    IF i + Len(needle) > Len(hay) THEN -1
    ELSE IF SubSeq(hay, i + 1, i + Len(needle)) = needle THEN i
    ELSE FindFrom(hay, needle, i + 1)

\* memmem::find, str::find: None is -1.
Find(hay, needle) == FindFrom(hay, needle, 0)

\* char::to_lowercase, on the code points below 256
ToLowercase(c) ==
    IF (c >= 65 /\ c <= 90) \/ (c >= 192 /\ c <= 222 /\ c # 215) THEN c + 32 ELSE c

B_sp_Act == <<32,65,99,116>>  \* " Act"

\* The entries of the table whose key is exactly k.
MappingGet(k) == {i \in 1..Len(HeaderMappings) : HeaderMappings[i].from = k}

\* str::is_char_boundary at the 0-based byte index idx of the UTF-8 bytes b
IsCharBoundary(b, idx) ==
    idx = 0 \/ idx = Len(b) \/ (idx > 0 /\ idx < Len(b) /\ ~IsCont(b[idx + 1]))

\* transform_value: Some(the string returned), or None when the slice
\* &value[act_pos - 2..act_pos] panics because act_pos - 2 is inside a
\* character.  find and the slices work on the UTF-8 bytes of value.
TransformValueOrPanic(k, v) ==
    LET keyLower == [i \in 1..Len(k) |-> ToLowercase(k[i])]
        hits == MappingGet(keyLower)
        regex == HeaderMappings[CHOOSE i \in hits : TRUE].regex
        value == StringBytes(v)
        actPos == Find(value, B_sp_Act)
        potential == Slice(value, actPos - 2, actPos)
        start == IndexOfByte(value, 91, 0)
        end == IndexOfByte(value, 93, 0)
        inner == Slice(value, start + 1, end)
    IN  IF hits = {} \/ regex = "none" THEN Some(v)
        ELSE IF regex = "act" /\ actPos >= 2 /\ ~IsCharBoundary(value, actPos - 2)
             THEN None
        ELSE IF /\ regex = "act" /\ actPos >= 2
                /\ \A i \in 1..Len(potential) : IsAsciiDigit(potential[i])
             THEN Some(BytesToString(potential))
        ELSE IF /\ regex = "bracket_digits" /\ start >= 0 /\ end >= 0
                /\ end > start + 1
                /\ \A i \in 1..Len(inner) : IsAsciiDigit(inner[i])
             THEN Some(BytesToString(inner))
        ELSE Some(v)

\* transform_value where it returns
TransformValue(k, v) == Unwrap(TransformValueOrPanic(k, v))

(***************************************************************************)
(* parse.rs: documents                                                     *)
(***************************************************************************)

RECURSIVE BoundariesFromAfterOpen(_, _)
\* The loop of find_document_boundaries resuming after the opening tag.
BoundariesFromAfterOpen(data, pos) ==
    LET start == Find(SliceFrom(data, pos), DOC_START)
        absStart == pos + start
        end == Find(SliceFrom(data, absStart), DOC_END)
        absEnd == absStart + end + Len(DOC_END)
    IN  IF start < 0 THEN <<>>
        ELSE IF end < 0 THEN <<>>
        ELSE <<<<absStart, absEnd>>>>
                 \o BoundariesFromAfterOpen(data, absStart + Len(DOC_START))

RECURSIVE BoundariesFrom(_, _)
\* The loop of find_document_boundaries from pos on: 0-based <<start, end>>.
BoundariesFrom(data, pos) ==
    LET start == Find(SliceFrom(data, pos), DOC_START)
        absStart == pos + start
        end == Find(SliceFrom(data, absStart), DOC_END)
        absEnd == absStart + end + Len(DOC_END)
    IN  IF start < 0 THEN <<>>
        ELSE IF end < 0 THEN <<>>
        ELSE <<<<absStart, absEnd>>>> \o BoundariesFrom(data, absEnd)

\* find_document_boundaries
FindDocumentBoundaries(data) == BoundariesFrom(data, 0)

\* parse_tag_line: Some(<<key, value>>) or None
ParseTagLine(line) ==
    LET gtPos == IndexOfByte(line, 62, 0)
    IN  IF gtPos < 0 THEN None
        ELSE Some(<<Slice(line, 1, gtPos), Trim(SliceFrom(line, gtPos + 1))>>)

RECURSIVE MetadataFields(_, _, _, _)
\* The loop of parse_document_metadata over the lines from i on.
MetadataFields(lines, i, standardize, fields) ==
    IF i > Len(lines) THEN fields
    ELSE LET line == Trim(lines[i])
             kv == ParseTagLine(line)
             keyStr == BytesToString(Unwrap(kv)[1])
             valueStr == BytesToString(Unwrap(kv)[2])
             finalKey == IF standardize THEN StandardizeKey(keyStr) ELSE keyStr
             finalValue == IF standardize THEN TransformValue(keyStr, valueStr)
                           ELSE valueStr
         IN  IF line # <<>> /\ StartsWith(line, <<60>>) /\ IsSome(kv)
             THEN MetadataFields(lines, i + 1, standardize,
                                 MapInsert(fields, finalKey, finalValue))
             ELSE MetadataFields(lines, i + 1, standardize, fields)

\* Whether a transform_value call of parse_document_metadata panics.
MetadataPanics(lines, standardize) ==
    \E i \in 1..Len(lines) :
        LET line == Trim(lines[i])
            kv == ParseTagLine(line)
        IN  /\ line # <<>> /\ StartsWith(line, <<60>>) /\ IsSome(kv)
            /\ standardize
            /\ ~IsSome(TransformValueOrPanic(BytesToString(Unwrap(kv)[1]),
                                             BytesToString(Unwrap(kv)[2])))

\* parse_document_metadata
ParseDocumentMetadata(data, standardize) ==
    [fields |-> MetadataFields(SplitOn(data, 10), 1, standardize, EmptyMap),
     size_bytes |-> 0,
     start_byte |-> None,
     end_byte |-> None]

\* detect_format without its trim_start
DetectFormatNoTrim(data) ==
    IF StartsWith(data, <<45>>) THEN "TabPrivacy"
    ELSE IF StartsWith(data, <<60,83,69>>) THEN "TabDefault"
    ELSE "Archive"

\* detect_format
DetectFormat(data) ==
    LET trimmed == TrimStart(data)
    IN  IF StartsWith(trimmed, <<45>>) THEN "TabPrivacy"
        ELSE IF StartsWith(trimmed, <<60,83,69>>) THEN "TabDefault"
        ELSE "Archive"

\* The length of a line at which the next line continues it.
WrapLen == 1023

RECURSIVE WrapLines(_, _, _, _)
\* The loop of fix_line_wraparound over the lines from i on.
WrapLines(lines, i, result, lastWasContinuation) ==
    IF i > Len(lines) THEN result
    ELSE WrapLines(lines, i + 1,
                   IF result # <<>> /\ lastWasContinuation
                   THEN [result EXCEPT ![Len(result)] = @ \o lines[i]]
                   ELSE Append(result, lines[i]),
                   Len(StringBytes(lines[i])) >= WrapLen)

\* fix_line_wraparound
FixLineWraparound(data) == WrapLines(Lines(BytesToString(data)), 1, <<>>, FALSE)

RECURSIVE Join(_, _)
\* <[String]>::join
Join(strs, sep) ==
    IF strs = <<>> THEN <<>>
    ELSE IF Len(strs) = 1 THEN strs[1]
    ELSE strs[1] \o sep \o Join(Tail(strs), sep)

\* clean_document_content
CleanDocumentContent(content, format, isBinary) ==
    LET c0 == Trim(content)
        c1 == IF StartsWith(c0, <<60,80,68,70,62>>) THEN SliceFrom(c0, 5)          \* "<PDF>"
              ELSE IF StartsWith(c0, <<60,88,66,82,76,62>>) THEN SliceFrom(c0, 6)  \* "<XBRL>"
              ELSE IF StartsWith(c0, <<60,88,77,76,62>>) THEN SliceFrom(c0, 5)     \* "<XML>"
              ELSE c0
        c2 == Trim(c1)
        c3 == IF EndsWith(c2, <<60,47,80,68,70,62>>) THEN Slice(c2, 0, Len(c2) - 6)          \* "</PDF>"
              ELSE IF EndsWith(c2, <<60,47,88,66,82,76,62>>) THEN Slice(c2, 0, Len(c2) - 7)  \* "</XBRL>"
              ELSE IF EndsWith(c2, <<60,47,88,77,76,62>>) THEN Slice(c2, 0, Len(c2) - 6)     \* "</XML>"
              ELSE c2
    IN  IF ~isBinary /\ format \in {"TabPrivacy", "TabDefault"}
        THEN StringBytes(Join(FixLineWraparound(c3), <<10>>))
        ELSE Trim(c3)

\* parse_single_document with size_bytes taken from the raw content.
ParseSingleDocumentRawSize(docData, format, standardize) ==
    LET textStart == Find(docData, TEXT_START)
        contentStart == textStart + Len(TEXT_START)
        endPos == Find(SliceFrom(docData, contentStart), TEXT_END)
        contentEnd == IF endPos >= 0 THEN contentStart + endPos ELSE Len(docData)
        rawContent == Slice(docData, contentStart, contentEnd)
        content == IF IsUuencoded(rawContent) THEN DecodeUuencoded(rawContent)
                   ELSE CleanDocumentContent(rawContent, format, FALSE)
        docMeta == ParseDocumentMetadata(Slice(docData, Len(DOC_START), textStart),
                                         standardize)
    IN  IF textStart < 0 THEN [ok |-> FALSE, err |-> "InvalidStructure"]
        ELSE IF MetadataPanics(SplitOn(Slice(docData, Len(DOC_START), textStart), 10),
                               standardize)
        THEN [ok |-> FALSE, err |-> "panicked"]
        ELSE [ok |-> TRUE,
              meta |-> [docMeta EXCEPT !.size_bytes = Len(rawContent)],
              content |-> content,
              raw |-> rawContent]

\* parse_single_document: Err(InvalidStructure), or Ok of the metadata and
\* the content; raw is its raw_content, the bytes between the TEXT tags.
\* The outcome "panicked" is no Result: a transform_value call of
\* parse_document_metadata panicked and the call unwinds.
ParseSingleDocument(docData, format, standardize) ==
    LET textStart == Find(docData, TEXT_START)
        contentStart == textStart + Len(TEXT_START)
        endPos == Find(SliceFrom(docData, contentStart), TEXT_END)
        contentEnd == IF endPos >= 0 THEN contentStart + endPos ELSE Len(docData)
        rawContent == Slice(docData, contentStart, contentEnd)
        content == IF IsUuencoded(rawContent) THEN DecodeUuencoded(rawContent)
                   ELSE CleanDocumentContent(rawContent, format, FALSE)
        docMeta == ParseDocumentMetadata(Slice(docData, Len(DOC_START), textStart),
                                         standardize)
    IN  IF textStart < 0 THEN [ok |-> FALSE, err |-> "InvalidStructure"]
        ELSE IF MetadataPanics(SplitOn(Slice(docData, Len(DOC_START), textStart), 10),
                               standardize)
        THEN [ok |-> FALSE, err |-> "panicked"]
        ELSE [ok |-> TRUE,
              meta |-> [docMeta EXCEPT !.size_bytes = Len(content)],
              content |-> content,
              raw |-> rawContent]

K_type == <<116,121,112,101>>  \* "type"
K_TYPE == <<84,89,80,69>>  \* "TYPE"

\* Whether s holds x.
Contains(s, x) == \E i \in 1..Len(s) : s[i] = x

\* apply_filter's indices with every document selected.
FilterIndicesAll(docMetas, options) == [i \in 1..Len(docMetas) |-> i]

\* The indices computed by apply_filter: the documents whose type field is
\* one of the filter's values, increasing.
FilterIndices(docMetas, options) ==
    LET typeKey == IF options.standardize_metadata THEN K_type ELSE K_TYPE
        selected(i) == /\ typeKey \in DOMAIN docMetas[i].fields
                       /\ Contains(options.filter_document_types,
                                   docMetas[i].fields[typeKey])
    IN  SelectSeq([i \in 1..Len(docMetas) |-> i], selected)

\* apply_filter with the two retention policies exchanged.
ApplyFilterSwapped(docMetas, documents, options) ==
    LET indices == FilterIndices(docMetas, options)
        filteredMetas == [j \in 1..Len(indices) |-> docMetas[indices[j]]]
        filteredDocs == [j \in 1..Len(indices) |-> documents[indices[j]]]
    IN  IF options.filter_document_types = <<>> THEN <<docMetas, documents>>
        ELSE IF ~options.keep_filtered_metadata THEN <<docMetas, filteredDocs>>
        ELSE <<filteredMetas, filteredDocs>>

\* apply_filter: <<the metadata list, the payload list>>
ApplyFilter(docMetas, documents, options) ==
    LET indices == FilterIndices(docMetas, options)
        filteredMetas == [j \in 1..Len(indices) |-> docMetas[indices[j]]]
        filteredDocs == [j \in 1..Len(indices) |-> documents[indices[j]]]
    IN  IF options.filter_document_types = <<>> THEN <<docMetas, documents>>
        ELSE IF options.keep_filtered_metadata THEN <<docMetas, filteredDocs>>
        ELSE <<filteredMetas, filteredDocs>>

(***************************************************************************)
(* parse.rs: the submission header                                         *)
(***************************************************************************)

RECURSIVE StrTrimStart(_)
\* str::trim_start
StrTrimStart(str) ==
    IF str # <<>> /\ IsWhitespace(str[1]) THEN StrTrimStart(Tail(str)) ELSE str

RECURSIVE StrTrimEnd(_)
\* str::trim_end
StrTrimEnd(str) ==
    IF str # <<>> /\ IsWhitespace(str[Len(str)])
    THEN StrTrimEnd(SubSeq(str, 1, Len(str) - 1)) ELSE str

\* str::trim
StrTrim(str) == StrTrimEnd(StrTrimStart(str))

B_SEC_DOCUMENT == <<60,83,69,67,45,68,79,67,85,77,69,78,84,62>>  \* "<SEC-DOCUMENT>"
B_SEC_HEADER == <<60,83,69,67,45,72,69,65,68,69,82,62>>  \* "<SEC-HEADER>"
B_sp_colon_sp == <<32,58,32>>  \* " : "
B_SUBMISSION == <<83,85,66,77,73,83,83,73,79,78>>  \* "SUBMISSION"
K_privacy_enhanced_message ==  \* "privacy-enhanced-message"
    <<112,114,105,118,97,99,121,45,101,110,104,97,110,99,101,100,45,
      109,101,115,115,97,103,101>>
K_PRIVACY_ENHANCED_MESSAGE ==  \* "PRIVACY-ENHANCED-MESSAGE"
    <<80,82,73,86,65,67,89,45,69,78,72,65,78,67,69,68,45,77,69,83,83,65,71,69>>

\* parse_sec_header_line: Some(<<tag name, value>>) or None
ParseSecHeaderLine(line) ==
    LET gtPos == IndexOfByte(line, 62, 0)
        tagName == Slice(line, 1, gtPos)
        rest == SliceFrom(line, gtPos + 1)
        colonPos == Find(rest, B_sp_colon_sp)
        filename == StrTrim(Slice(rest, 0, colonPos))
        date == StrTrim(SliceFrom(rest, colonPos + 3))
    IN  IF gtPos < 0 THEN None
        ELSE IF colonPos >= 0 THEN Some(<<tagName, filename \o B_sp_colon_sp \o date>>)
        ELSE Some(<<tagName, StrTrim(rest)>>)

RECURSIVE CountTabs(_, _)
\* The number of tab bytes at the start of the line from index i on.
CountTabs(line, i) ==
    IF i <= Len(line) /\ line[i] = 9 THEN 1 + CountTabs(line, i + 1) ELSE 0

\* One turn of parse_tab_metadata's loop: the root and the path after the
\* line.
TabLine(line, standardize, r, p) ==
    LET indentLevel == CountTabs(line, 1)
        lineContent == StrTrimEnd(SliceFrom(line, indentLevel))
        truncated == Truncate(p, indentLevel)
        colonPos == IndexOfByte(lineContent, 58, 0)
        gtPos == IndexOfByte(lineContent, 62, 0)
        sec == ParseSecHeaderLine(lineContent)
        colonKey == StrTrim(Slice(lineContent, 0, colonPos))
        colonValue == StrTrim(SliceFrom(lineContent, colonPos + 1))
        tagKey == Slice(lineContent, 1, gtPos)
        tagValue == StrTrim(SliceFrom(lineContent, gtPos + 1))
        final(k) == IF standardize THEN StandardizeKey(k) ELSE k
        finalValue(k, v) == IF standardize THEN TransformValue(k, v) ELSE v
    IN  IF Trim(StringBytes(line)) = <<>> \/ lineContent = <<>> THEN <<r, p>>
        ELSE IF colonPos >= 0
        THEN IF StartsWith(lineContent, B_SEC_DOCUMENT) \/ StartsWith(lineContent, B_SEC_HEADER)
             THEN IF IsSome(sec)
                  THEN <<InsertAtPath(r, truncated, final(Unwrap(sec)[1]),
                                      MvString(Unwrap(sec)[2])), truncated>>
                  ELSE <<r, truncated>>
             ELSE IF colonValue = <<>>
             THEN <<InsertAtPath(r, truncated, final(colonKey), MvObject(EmptyMap)),
                    Append(truncated, final(colonKey))>>
             ELSE <<InsertAtPath(r, truncated, final(colonKey),
                                 MvString(finalValue(colonKey, colonValue))), truncated>>
        ELSE IF StartsWith(lineContent, <<60>>) /\ gtPos >= 0
        THEN IF StartsWith(tagKey, <<47>>) THEN <<r, truncated>>
             ELSE <<InsertAtPath(r, truncated, final(tagKey),
                                 MvString(finalValue(tagKey, tagValue))), truncated>>
        ELSE <<r, truncated>>

RECURSIVE TabLines(_, _, _, _, _)
\* The loop of parse_tab_metadata over the lines from i on.
TabLines(lines, i, standardize, r, p) ==
    IF i > Len(lines) THEN r
    ELSE LET next == TabLine(lines[i], standardize, r, p)
         IN  TabLines(lines, i + 1, standardize, next[1], next[2])

\* parse_tab_metadata
ParseTabMetadata(data, standardize) ==
    TabLines(FixLineWraparound(data), 1, standardize, EmptyMap, <<>>)

\* u8::is_ascii_alphanumeric
IsAsciiAlphanumeric(b) ==
    IsAsciiDigit(b) \/ (b >= 65 /\ b <= 90) \/ (b >= 97 /\ b <= 122)

\* find_tag_end: the 0-based index of the byte before the first '>' that
\* follows an alphanumeric byte, or -1.
FindTagEnd(line) ==
    LET hits == {i \in 2..Len(line) : line[i] = 62 /\ IsAsciiAlphanumeric(line[i - 1])}
    IN  IF hits = {} THEN -1
        ELSE (CHOOSE i \in hits : \A j \in hits : i <= j) - 2

RECURSIVE ArchiveKeyvals(_, _)
\* The loop of parse_archive_keyvals over the lines from i on.
ArchiveKeyvals(lines, i) ==
    IF i > Len(lines) THEN <<>>
    ELSE LET line == Trim(lines[i])
             gtPos == FindTagEnd(line)
         IN  (IF line # <<>> /\ gtPos >= 0 /\ StartsWith(line, <<60>>)
              THEN <<<<Slice(line, 1, gtPos + 1), Trim(SliceFrom(line, gtPos + 2))>>>>
              ELSE <<>>) \o ArchiveKeyvals(lines, i + 1)

\* parse_archive_keyvals
ParseArchiveKeyvals(data) == ArchiveKeyvals(SplitOn(data, 10), 1)

\* Vec::pop
Pop(s) == IF s = <<>> THEN s ELSE SubSeq(s, 1, Len(s) - 1)

\* One turn of the second pass, were a closing tag to leave the path as
\* it is.
ArchiveTagNoPop(kv, sectionTags, standardize, r, p) ==
    LET k == kv[1]
        value == kv[2]
        keyStr == BytesToString(k)
        valueStr == BytesToString(value)
        finalKey == IF standardize THEN StandardizeKey(keyStr) ELSE keyStr
        finalValue == IF standardize THEN TransformValue(keyStr, valueStr) ELSE valueStr
    IN  IF k = B_SUBMISSION THEN <<r, p>>
        ELSE IF StartsWith(k, <<47>>) THEN <<r, p>>
        ELSE IF value # <<>>
        THEN <<InsertAtPath(r, p, finalKey, MvString(finalValue)), p>>
        ELSE IF k \in sectionTags
        THEN <<InsertAtPath(r, p, finalKey, MvObject(EmptyMap)), Append(p, finalKey)>>
        ELSE <<InsertAtPath(r, p, finalKey, MvString(<<>>)), p>>

\* One turn of the second pass of parse_archive_metadata: the root and the
\* path after the pair kv.
ArchiveTag(kv, sectionTags, standardize, r, p) ==
    LET k == kv[1]
        value == kv[2]
        keyStr == BytesToString(k)
        valueStr == BytesToString(value)
        finalKey == IF standardize THEN StandardizeKey(keyStr) ELSE keyStr
        finalValue == IF standardize THEN TransformValue(keyStr, valueStr) ELSE valueStr
    IN  IF k = B_SUBMISSION THEN <<r, p>>
        ELSE IF StartsWith(k, <<47>>) THEN <<r, Pop(p)>>
        ELSE IF value # <<>>
        THEN <<InsertAtPath(r, p, finalKey, MvString(finalValue)), p>>
        ELSE IF k \in sectionTags
        THEN <<InsertAtPath(r, p, finalKey, MvObject(EmptyMap)), Append(p, finalKey)>>
        ELSE <<InsertAtPath(r, p, finalKey, MvString(<<>>)), p>>

RECURSIVE ArchiveFields(_, _, _, _, _, _)
\* The second pass of parse_archive_metadata over the pairs from i on.
ArchiveFields(keyvals, sectionTags, i, standardize, r, p) ==
    IF i > Len(keyvals) THEN r
    ELSE LET next == ArchiveTag(keyvals[i], sectionTags, standardize, r, p)
         IN  ArchiveFields(keyvals, sectionTags, i + 1, standardize, next[1], next[2])

\* The section tags: the keys of the closing tags, without their '/'.
SectionTags(keyvals) ==
    {SliceFrom(keyvals[i][1], 1) :
        i \in {j \in 1..Len(keyvals) : StartsWith(keyvals[j][1], <<47>>)}}

\* parse_archive_metadata
ParseArchiveMetadata(data, standardize) ==
    LET keyvals == ParseArchiveKeyvals(data)
    IN  ArchiveFields(keyvals, SectionTags(keyvals), 1, standardize, EmptyMap, <<>>)

\* find_double_newline: the 0-based index or -1
FindDoubleNewline(data) == Find(data, <<10, 10>>)

\* parse_submission_metadata: the header fields and the format
ParseSubmissionMetadata(data, standardize) ==
    LET format == DetectFormat(data)
        found == FindDoubleNewline(data)
        privacyEnd == IF found >= 0 THEN found ELSE 0
        privacyMsg == BytesToString(Slice(data, 0, privacyEnd))
        rest == TrimStart(SliceFrom(data, privacyEnd))
    IN  [fields |->
            IF format = "TabPrivacy"
            THEN MapInsert(ParseTabMetadata(rest, standardize),
                           IF standardize THEN K_privacy_enhanced_message
                           ELSE K_PRIVACY_ENHANCED_MESSAGE,
                           MvString(privacyMsg))
            ELSE IF format = "TabDefault" THEN ParseTabMetadata(data, standardize)
            ELSE ParseArchiveMetadata(data, standardize),
         format |-> format]

(***************************************************************************)
(* write.rs: usize arithmetic and formatting.  A usize is the pair         *)
(* <<hi, lo>> standing for hi * 10^9 + lo with lo < 10^9, so that offsets  *)
(* beyond ten decimal digits are exact.                                    *)
(***************************************************************************)

\* TAR block size
BLOCK_SIZE == 512

\* The weight of the high part of a usize.
Limb == 10^9

\* The usize of a number below 2^31.
U(n) == <<n \div Limb, n % Limb>>

\* usize +
UAdd(a, b) == <<a[1] + b[1] + ((a[2] + b[2]) \div Limb), (a[2] + b[2]) % Limb>>

\* usize -, for a >= b
USub(a, b) ==
    IF a[2] >= b[2] THEN <<a[1] - b[1], a[2] - b[2]>>
    ELSE <<a[1] - b[1] - 1, a[2] + Limb - b[2]>>

\* usize <, <=, max
ULt(a, b) == a[1] < b[1] \/ (a[1] = b[1] /\ a[2] < b[2])
ULe(a, b) == a = b \/ ULt(a, b)
UMax(a, b) == IF ULt(a, b) THEN b ELSE a

\* usize % m, for m below 2^20
UMod(a, m) == (((a[1] % m) * (Limb % m)) + a[2]) % m

\* usize / 8
UDiv8(a) == <<a[1] \div 8, ((a[1] % 8) * (Limb \div 8)) + (a[2] \div 8)>>

RECURSIVE Digits(_, _)
\* The digits of n in the given base, as ASCII, most significant first;
\* none for 0.
Digits(n, base) ==
    IF n = 0 THEN <<>> ELSE Append(Digits(n \div base, base), 48 + (n % base))

\* Left padding with '0' to the given width; longer strings are kept.
ZeroPad(str, width) ==
    IF Len(str) >= width THEN str ELSE [i \in 1..(width - Len(str)) |-> 48] \o str

\* format!("{}", n) of a usize
UDecimal(a) ==
    IF a = <<0, 0>> THEN <<48>>
    ELSE IF a[1] = 0 THEN Digits(a[2], 10)
    ELSE Digits(a[1], 10) \o ZeroPad(Digits(a[2], 10), 9)

\* format!("{:010}", n): at least ten digits, zero-padded.
Format010(a) == ZeroPad(UDecimal(a), 10)

RECURSIVE UOctalDigits(_)
\* The octal digits of a usize, none for 0.
UOctalDigits(a) ==
    IF a = <<0, 0>> THEN <<>>
    ELSE Append(UOctalDigits(UDiv8(a)), 48 + (a[2] % 8))

\* format!("{:011o}", n): at least eleven octal digits, zero-padded.
Format011o(a) == ZeroPad(UOctalDigits(a), 11)

RECURSIVE ParseSmall(_)
\* The number written by at most nine decimal digits.
ParseSmall(str) ==
    IF str = <<>> THEN 0
    ELSE ParseSmall(SubSeq(str, 1, Len(str) - 1)) * 10 + (str[Len(str)] - 48)

\* str::parse::<usize> of a string of decimal digits
ParseUsize(str) ==
    IF Len(str) <= 9 THEN <<0, ParseSmall(str)>>
    ELSE <<ParseSmall(SubSeq(str, 1, Len(str) - 9)),
           ParseSmall(SubSeq(str, Len(str) - 8, Len(str)))>>

(***************************************************************************)
(* write.rs: payloads and archive bytes.  A run of bytes, possibly of      *)
(* gigabytes, is the record [pre, fill, n]: the bytes of pre followed by   *)
(* n (a usize) times the byte fill.                                        *)
(***************************************************************************)

\* The run of the given bytes.
Bytes(b) == [pre |-> b, fill |-> 0, n |-> U(0)]

\* vec![byte; n]
Repeat(byte, n) == [pre |-> <<>>, fill |-> byte, n |-> n]

\* <[u8]>::len
RunLen(r) == UAdd(U(Len(r.pre)), r.n)

\* The byte of a run at the 0-based usize index rel.
RunByteAt(r, rel) == IF ULt(rel, U(Len(r.pre))) THEN r.pre[rel[2] + 1] ELSE r.fill

RECURSIVE OffsetOf(_, _)
\* The offset in the archive of its k-th written run: the bytes before it.
OffsetOf(a, k) ==
    IF k = 1 THEN U(0) ELSE UAdd(OffsetOf(a, k - 1), RunLen(a[k - 1]))

\* The length of the archive.
ArchiveLen(a) == OffsetOf(a, Len(a) + 1)

\* The byte of the archive at offset p.
ByteAt(a, p) ==
    LET k == CHOOSE j \in 1..Len(a) : ULe(OffsetOf(a, j), p) /\ ULt(p, OffsetOf(a, j + 1))
    IN  RunByteAt(a[k], USub(p, OffsetOf(a, k)))

\* Offsets of [s, e) that decide whether archive[s..e] is the payload pl:
\* every offset of the range that falls on the explicit bytes of the
\* payload or of a written run, and the first offset at which each written
\* run's repeated byte meets the payload's repeated byte.
SamplePoints(a, s, e, pl) ==
    LET overlapping == {k \in 1..Len(a) : ULt(OffsetOf(a, k), e) /\ ULt(s, OffsetOf(a, k + 1))}
        payloadPre == {UAdd(s, U(j)) : j \in 0..(Len(pl.pre) - 1)}
        archivePre == UNION {{UAdd(OffsetOf(a, k), U(j)) : j \in 0..(Len(a[k].pre) - 1)} :
                             k \in overlapping}
        runs == {UMax(UAdd(OffsetOf(a, k), U(Len(a[k].pre))), UAdd(s, U(Len(pl.pre)))) :
                 k \in overlapping}
    IN  {p \in payloadPre \cup archivePre \cup runs : ULe(s, p) /\ ULt(p, e)}

\* archive[s..e] == pl, byte for byte.
SliceEquals(a, s, e, pl) ==
    /\ ULe(s, e)
    /\ ULe(e, ArchiveLen(a))
    /\ USub(e, s) = RunLen(pl)
    /\ \A p \in SamplePoints(a, s, e, pl) : ByteAt(a, p) = RunByteAt(pl, USub(p, s))

(***************************************************************************)
(* write.rs: serde_json::to_string of the metadata.  A HashMap is written  *)
(* in its iteration order: order lists the keys in that order.             *)
(***************************************************************************)

\* A hexadecimal digit, lowercase.
HexDigit(d) == IF d < 10 THEN 48 + d ELSE 87 + d

\* One character inside a JSON string.
JsonEscape(c) ==
    IF c = 34 THEN <<92,34>>
    ELSE IF c = 92 THEN <<92,92>>
    ELSE IF c = 8 THEN <<92,98>>
    ELSE IF c = 9 THEN <<92,116>>
    ELSE IF c = 10 THEN <<92,110>>
    ELSE IF c = 12 THEN <<92,102>>
    ELSE IF c = 13 THEN <<92,114>>
    ELSE IF c < 32 THEN <<92,117,48,48, HexDigit(c \div 16), HexDigit(c % 16)>>
    ELSE Utf8Char(c)

\* A string as JSON.
JsonString(str) == <<34>> \o Concat([i \in 1..Len(str) |-> JsonEscape(str[i])]) \o <<34>>

\* The keys of a map in iteration order.
KeysInOrder(map, order) == SelectSeq(order, LAMBDA k : k \in DOMAIN map)

RECURSIVE JsonValue(_, _)
\* A MetadataValue as JSON (untagged).
JsonValue(v, order) ==
    IF v.t = "String" THEN JsonString(v.s)
    ELSE IF v.t = "List"
    THEN <<91>> \o Join([i \in 1..Len(v.l) |-> JsonValue(v.l[i], order)], <<44>>) \o <<93>>
    ELSE LET ks == KeysInOrder(v.o, order)
         IN  <<123>>
             \o Join([i \in 1..Len(ks) |->
                        JsonString(ks[i]) \o <<58>> \o JsonValue(v.o[ks[i]], order)], <<44>>)
             \o <<125>>

J_size_bytes ==  \* "secsgml_size_bytes":
    <<34,115,101,99,115,103,109,108,95,115,105,122,101,95,98,121,116,101,115,34,58>>
J_start_byte ==  \* "secsgml_start_byte":
    <<34,115,101,99,115,103,109,108,95,115,116,97,114,116,95,98,121,116,101,34,58>>
J_end_byte ==  \* "secsgml_end_byte":
    <<34,115,101,99,115,103,109,108,95,101,110,100,95,98,121,116,101,34,58>>
J_documents ==  \* "documents":
    <<34,100,111,99,117,109,101,110,116,115,34,58>>

\* A DocumentMetadata as JSON: the flattened fields, the size, and the
\* offsets that are Some.
DocumentJson(doc, order) ==
    LET ks == KeysInOrder(doc.fields, order)
    IN  <<123>>
        \o Join([i \in 1..Len(ks) |->
                   JsonString(ks[i]) \o <<58>> \o JsonString(doc.fields[ks[i]])]
                \o <<J_size_bytes \o UDecimal(doc.size_bytes)>>
                \o (IF IsSome(doc.start_byte)
                    THEN <<J_start_byte \o JsonString(Unwrap(doc.start_byte))>> ELSE <<>>)
                \o (IF IsSome(doc.end_byte)
                    THEN <<J_end_byte \o JsonString(Unwrap(doc.end_byte))>> ELSE <<>>),
                <<44>>)
        \o <<125>>

\* serde_json::to_string of a SubmissionMetadata: the flattened fields, then
\* the documents.
MetadataJson(meta, order) ==
    LET ks == KeysInOrder(meta.fields, order)
    IN  <<123>>
        \o Join([i \in 1..Len(ks) |->
                   JsonString(ks[i]) \o <<58>> \o JsonValue(meta.fields[ks[i]], order)]
                \o <<J_documents \o <<91>>
                     \o Join([i \in 1..Len(meta.documents) |->
                                DocumentJson(meta.documents[i], order)], <<44>>)
                     \o <<93>>>>,
                <<44>>)
        \o <<125>>

(***************************************************************************)
(* write.rs: positions, headers and entries                                *)
(***************************************************************************)

\* pad_to_block without any padding.
PadToBlockNone(size) == 0

\* pad_to_block padding a whole block after a multiple of the block size.
PadToBlockWhole(size) == BLOCK_SIZE - UMod(size, BLOCK_SIZE)

\* pad_to_block
PadToBlock(size) ==
    LET remainder == UMod(size, BLOCK_SIZE)
    IN  IF remainder = 0 THEN 0 ELSE BLOCK_SIZE - remainder

PLACEHOLDER == <<57,57,57,57,57,57,57,57,57,57>>  \* "9999999999"

RECURSIVE PositionsFrom(_, _, _, _)
\* Step 4 of calculate_tar_positions from document i on: the documents'
\* metadata with the positions written, or None on the panic of an index
\* past the end of the metadata list.
PositionsFrom(docMetas, documents, i, currentPos) ==
    IF i > Len(documents) THEN Some(docMetas)
    ELSE IF i > Len(docMetas) THEN None
    ELSE LET docSize == RunLen(documents[i])
             startByte == UAdd(currentPos, U(BLOCK_SIZE))
             endByte == UAdd(startByte, docSize)
             contentPadded == UAdd(docSize, U(PadToBlock(docSize)))
         IN  PositionsFrom(
                 [docMetas EXCEPT ![i].start_byte = Some(Format010(startByte)),
                                  ![i].end_byte = Some(Format010(endByte))],
                 documents, i + 1,
                 UAdd(currentPos, UAdd(U(BLOCK_SIZE), contentPadded)))

\* calculate_tar_positions: the metadata with the positions, and the
\* metadata_size it measured; or a panic.
CalculateTarPositions(meta, documents, order) ==
    LET placeholders == [meta EXCEPT !.documents =
            [i \in 1..Len(meta.documents) |->
                [meta.documents[i] EXCEPT !.start_byte = Some(PLACEHOLDER),
                                          !.end_byte = Some(PLACEHOLDER)]]]
        metadataSizeLocal == U(Len(MetadataJson(placeholders, order)))
        metadataPadded == UAdd(metadataSizeLocal, U(PadToBlock(metadataSizeLocal)))
        docs == PositionsFrom(placeholders.documents, documents, 1,
                              UAdd(U(BLOCK_SIZE), metadataPadded))
    IN  IF ~IsSome(docs) THEN [ok |-> FALSE]
        ELSE [ok |-> TRUE,
              metadata |-> [meta EXCEPT !.documents = Unwrap(docs)],
              metadata_size |-> metadataSizeLocal]

\* header[at..at + bytes.len()].copy_from_slice(bytes), at 0-based
CopyFromSlice(header, at, bytes) ==
    LET copied == [i \in 1..Len(header) |->
                      IF i > at /\ i <= at + Len(bytes) THEN bytes[i - at] ELSE header[i]]
    IN  SubSeq(copied, 1, Len(header))

RECURSIVE SumRange(_, _, _)
\* The sum of the bytes at the indices lo..hi.
SumRange(bytes, lo, hi) ==
    IF lo > hi THEN 0
    ELSE IF lo = hi THEN bytes[lo]
    ELSE LET mid == (lo + hi) \div 2
         IN  SumRange(bytes, lo, mid) + SumRange(bytes, mid + 1, hi)

B_0000644 == <<48,48,48,48,54,52,52>>  \* "0000644"
B_0000000 == <<48,48,48,48,48,48,48>>  \* "0000000"
B_ustar == <<117,115,116,97,114,0>>  \* "ustar\0"

\* build_tar_header: Some(the header), or None where copy_from_slice
\* panics on a size or checksum string of another length than its field.
BuildTarHeader(filename, size) ==
    LET nameBytes == StringBytes(filename)
        nameLen == IF Len(nameBytes) < 100 THEN Len(nameBytes) ELSE 100
        sizeStr == Format011o(size)
        h1 == CopyFromSlice([i \in 1..BLOCK_SIZE |-> 0], 0, SubSeq(nameBytes, 1, nameLen))
        h2 == CopyFromSlice(h1, 100, B_0000644)
        h3 == CopyFromSlice(h2, 108, B_0000000)
        h4 == CopyFromSlice(h3, 116, B_0000000)
        h5 == CopyFromSlice(h4, 124, sizeStr)
        h6 == CopyFromSlice(h5, 136, [i \in 1..11 |-> 48])
        h7 == CopyFromSlice(h6, 148, [i \in 1..8 |-> 32])
        h8 == CopyFromSlice(h7, 156, <<48>>)
        h9 == CopyFromSlice(h8, 257, B_ustar)
        h10 == CopyFromSlice(h9, 263, <<48,48>>)
        checksum == SumRange(h10, 1, BLOCK_SIZE)
        checksumStr == ZeroPad(Digits(checksum, 8), 6) \o <<0, 32>>
    IN  IF Len(sizeStr) # 11 \/ Len(checksumStr) # 8 THEN None
        ELSE Some(CopyFromSlice(h10, 148, checksumStr))

\* write_tar_entry: Some(the runs written: header, content, padding if
\* any), or None on a panic in build_tar_header.
WriteTarEntry(filename, content) ==
    LET header == BuildTarHeader(filename, RunLen(content))
        paddingSize == PadToBlock(RunLen(content))
    IN  IF ~IsSome(header) THEN None
        ELSE Some(<<Bytes(Unwrap(header)), content>>
                  \o (IF paddingSize > 0 THEN <<Repeat(0, U(paddingSize))>> ELSE <<>>))

K_filename == <<102,105,108,101,110,97,109,101>>  \* "filename"
K_sequence == <<115,101,113,117,101,110,99,101>>  \* "sequence"
B_metadata_json == <<109,101,116,97,100,97,116,97,46,106,115,111,110>>  \* "metadata.json"
B_dot_txt == <<46,116,120,116>>  \* ".txt"

\* The member name of document i (1-based) with the sequence field before
\* the filename field.
MemberNameSequenceFirst(docMeta, i) ==
    IF K_sequence \in DOMAIN docMeta.fields THEN docMeta.fields[K_sequence] \o B_dot_txt
    ELSE IF K_filename \in DOMAIN docMeta.fields THEN docMeta.fields[K_filename]
    ELSE Digits(i, 10) \o B_dot_txt

\* The member name of document i (1-based): the filename field, or the
\* sequence field and ".txt", or the document's number and ".txt".
MemberName(docMeta, i) ==
    IF K_filename \in DOMAIN docMeta.fields THEN docMeta.fields[K_filename]
    ELSE IF K_sequence \in DOMAIN docMeta.fields THEN docMeta.fields[K_sequence] \o B_dot_txt
    ELSE Digits(i, 10) \o B_dot_txt

(***************************************************************************)
(* Specification SpecKey: standardize_key applied once and then again      *)
(***************************************************************************)

K_CENTRAL_INDEX_KEY == <<67,69,78,84,82,65,76,32,73,78,68,69,88,32,75,69,89>>  \* "CENTRAL INDEX KEY"
K_cik == <<99,105,107>>  \* "cik"
K_UNKNOWN_FIELD == <<85,78,75,78,79,87,78,32,70,73,69,76,68>>  \* "UNKNOWN FIELD"
K_unknown_field == <<117,110,107,110,111,119,110,45,102,105,101,108,100>>  \* "unknown-field"
K_foo_bar == <<32,32,102,111,111,32,32,32,98,97,114,32>>  \* "  foo   bar "
K_dash_foo_bar_dash == <<45,102,111,111,45,98,97,114,45>>  \* "-foo-bar-"
K_some_spaces == <<115,111,109,101,32,32,109,117,108,116,105,112,108,101,32,32,32,115,112,97,99,101,115>>  \* "some  multiple   spaces"

\* The table's keys, as written (lowercase).
TableKeys == {HeaderMappings[i].from : i \in 1..Len(HeaderMappings)}

UpperCased(k) == [i \in 1..Len(k) |-> ToAsciiUppercase(k[i])]

\* Only the first letter upper-cased.
Capitalized(k) == [i \in 1..Len(k) |-> IF i = 1 THEN ToAsciiUppercase(k[i]) ELSE k[i]]

\* The characters of the generated keys: space, tab, 'a', 'B', '-'.
KeyAlphabet == {32, 9, 97, 66, 45}

\* The keys standardize_key is applied to: every table key in three letter
\* cases, the keys of the tests, and every string of at most MaxLen
\* characters over KeyAlphabet.
KeyInputs ==
    TableKeys \cup {UpperCased(k) : k \in TableKeys}
              \cup {Capitalized(k) : k \in TableKeys}
              \cup {K_UNKNOWN_FIELD, K_foo_bar, K_some_spaces}
              \cup SeqsUpTo(KeyAlphabet, MaxLen)

\* The variables of standardize_key while another specification runs.
KeyIdle == key = <<>> /\ keyOut = <<>> /\ keyOut2 = <<>> /\ keyPc = "idle"

\* The variables of the UU round trip while another specification runs.
UuIdle == uuBytes = <<>> /\ uuText = <<>> /\ uuOut = <<>> /\ uuPc = "idle"

\* The variables of the header tree while another specification runs.
TreeIdle ==
    root = <<>> /\ path = <<>> /\ rootHist = <<>> /\ lineNo = 0 /\ treePc = "idle"

\* The variables of parse_sgml while another specification runs.
ParseIdle ==
    /\ sgml = <<>> /\ opts = <<>> /\ fmt = "" /\ headerFields = <<>>
    /\ docBoundaries = <<>>
    /\ parsedDocs = <<>> /\ parsed = None /\ parsePc = "idle"

\* The variables of write_to_tar_writer while another specification runs.
TarIdle ==
    /\ submission = <<>> /\ hashOrder = <<>> /\ tarMetadata = <<>>
    /\ metadataSize = <<0, 0>> /\ archive = <<>> /\ docIndex = 0 /\ tarPc = "idle"

\* The variables of a pure function's call while another specification runs.
CallIdle == callArgs = <<>> /\ callRet = None /\ callPc = "idle"

KeyInit ==
    /\ key \in KeyInputs
    /\ keyOut = <<>>
    /\ keyOut2 = <<>>
    /\ keyPc = "in"
    /\ UuIdle /\ TreeIdle /\ ParseIdle /\ TarIdle /\ CallIdle

\* A call standardize_key(key).
KeyStandardize ==
    /\ keyPc = "in"
    /\ keyOut' = StandardizeKey(key)
    /\ keyPc' = "once"
    /\ UNCHANGED <<key, keyOut2, notKey>>

\* A call standardize_key on the result of the first call.
KeyStandardizeAgain ==
    /\ keyPc = "once"
    /\ keyOut2' = StandardizeKey(keyOut)
    /\ keyPc' = "twice"
    /\ UNCHANGED <<key, keyOut, notKey>>

KeyNext == KeyStandardize \/ KeyStandardizeAgain

SpecKey == KeyInit /\ [][KeyNext]_vars

(***************************************************************************)
(* Specification SpecTree: the header lines of parse_tab_metadata, one by  *)
(* one, each already split into its indent, key and value                  *)
(***************************************************************************)

\* The bound on the number of header lines processed.
MaxLines == 4

\* The bound on the indent (the count of leading tabs) of a header line.
MaxIndent == 2

K_filer == <<102,105,108,101,114>>  \* "filer"
K_city == <<99,105,116,121>>  \* "city"

\* The standardized keys of the header lines.
TreeKeys == {K_filer, K_city}

\* The value of the n-th line: the digit n, so that every inserted scalar
\* is told from every other.
LineValue(n) == <<48 + n>>

TreeInit ==
    /\ root = EmptyMap
    /\ path = <<>>
    /\ rootHist = [k \in TreeKeys |-> <<>>]
    /\ lineNo = 0
    /\ treePc = "lines"
    /\ KeyIdle /\ UuIdle /\ ParseIdle /\ TarIdle /\ CallIdle

\* The history after a value is inserted with key k at path p: inserts with
\* an empty path are inserts at the root scope.
Recorded(p, k, v) ==
    IF p = <<>> THEN [rootHist EXCEPT ![k] = Append(@, v)] ELSE rootHist

\* A line "KEY:" with an empty value at the given indent: a section start.
TabSectionLine(indent, k) ==
    /\ treePc = "lines"
    /\ lineNo < MaxLines
    /\ LET p == Truncate(path, indent)
       IN  /\ root' = InsertAtPath(root, p, k, MvObject(EmptyMap))
           /\ path' = Append(p, k)
           /\ rootHist' = Recorded(p, k, MvObject(EmptyMap))
    /\ lineNo' = lineNo + 1
    /\ UNCHANGED <<treePc, notTree>>

\* A line "KEY: value" at the given indent: a scalar.
TabScalarLine(indent, k) ==
    /\ treePc = "lines"
    /\ lineNo < MaxLines
    /\ LET p == Truncate(path, indent)
           v == MvString(LineValue(lineNo + 1))
       IN  /\ root' = InsertAtPath(root, p, k, v)
           /\ path' = p
           /\ rootHist' = Recorded(p, k, v)
    /\ lineNo' = lineNo + 1
    /\ UNCHANGED <<treePc, notTree>>

TreeNext ==
    \E indent \in 0..MaxIndent, k \in TreeKeys :
        TabSectionLine(indent, k) \/ TabScalarLine(indent, k)

SpecTree == TreeInit /\ [][TreeNext]_vars

(***************************************************************************)
(* Claims about the header tree                                            *)
(***************************************************************************)

\* A value of the tree is the inserted value v: the same string, or an
\* object where an object was inserted (an object is filled in later by the
\* lines of its section).
IsInserted(cur, v) ==
    /\ cur.t = v.t
    /\ v.t = "String" => cur.s = v.s

\* C7: duplicate-key promotion preserves order.  After any sequence of
\* inserts of one key at the root scope, a single insert leaves the value
\* as is, and from the second insert on the value is a list holding the
\* inserted values in insertion order, the first at index 0 and the N-th
\* duplicate at index N; its elements are the inserted strings and objects
\* themselves, never a nested list.
C7_PromotionKeepsOrder ==
    treePc = "lines" =>
        \A k \in TreeKeys :
            LET h == rootHist[k]
            IN  /\ h = <<>> => k \notin DOMAIN root
                /\ Len(h) = 1 => (k \in DOMAIN root /\ IsInserted(root[k], h[1]))
                /\ Len(h) >= 2 =>
                      /\ k \in DOMAIN root
                      /\ root[k].t = "List"
                      /\ Len(root[k].l) = Len(h)
                      /\ \A i \in 1..Len(h) : IsInserted(root[k].l[i], h[i])

\* C7 witness: one key was inserted three times at the root scope, a
\* string, then an object, then a string.
C7_Witness ==
    /\ treePc = "lines"
    /\ \E k \in TreeKeys :
          /\ Len(rootHist[k]) = 3
          /\ rootHist[k][1].t = "String"
          /\ rootHist[k][2].t = "Object"
          /\ rootHist[k][3].t = "String"
          /\ root[k].t = "List"

(***************************************************************************)
(* Claims about standardize_key                                            *)
(***************************************************************************)

\* key is a key of the table, in some letter case.
IsTableKey(k) == \E t \in TableKeys : EqIgnoreAsciiCase(k, t)

\* C8: standardize_key is idempotent on the keys of the header-mappings
\* table, in any letter case: applying it to its own result on a table key
\* gives that result again.
C8_StandardizeIdempotent ==
    (keyPc = "twice" /\ IsTableKey(key)) => keyOut2 = keyOut

\* C8 witness: "CENTRAL INDEX KEY" was standardized to "cik", which is not
\* itself a table key, and standardized again.
C8_Witness ==
    /\ keyPc = "twice"
    /\ key = K_CENTRAL_INDEX_KEY
    /\ keyOut = K_cik
    /\ ~IsTableKey(keyOut)

\* The positions of k that start a run of whitespace.
RunStarts(k) ==
    {i \in 1..Len(k) : IsWhitespace(k[i]) /\ (i = 1 \/ ~IsWhitespace(k[i - 1]))}

RECURSIVE Pick(_, _, _)
\* The characters of k at the positions of keep, from position i on, in
\* order, each lowercased, a whitespace character written as '-'.
Pick(k, keep, i) ==
    IF i > Len(k) THEN <<>>
    ELSE (IF i \in keep
          THEN <<IF IsWhitespace(k[i]) THEN 45 ELSE ToAsciiLowercase(k[i])>>
          ELSE <<>>) \o Pick(k, keep, i + 1)

\* k in ASCII lowercase with every run of whitespace, a leading one
\* included, collapsed to one '-'.
CollapsedUntrimmed(k) ==
    Pick(k, {i \in 1..Len(k) : ~IsWhitespace(k[i])} \cup RunStarts(k), 1)

\* k in ASCII lowercase with every run of whitespace that follows a
\* non-whitespace character collapsed to one '-', and a run of whitespace
\* at the very start of k dropped.
CollapsedLeadingDropped(k) ==
    Pick(k, {i \in 1..Len(k) : ~IsWhitespace(k[i])} \cup (RunStarts(k) \ {1}), 1)

\* The canonical key of the table entry that k matches up to ASCII case.
CanonicalOf(k) ==
    HeaderMappings[CHOOSE i \in 1..Len(HeaderMappings) :
                       EqIgnoreAsciiCase(k, HeaderMappings[i].from)].to

\* C10 as stated: on a hit the canonical key; on a miss the key lowercased
\* with every run of whitespace collapsed to one '-' and nothing trimmed,
\* so that leading whitespace gives a leading '-'.
C10_AsStated ==
    keyPc # "in" =>
        /\ IsTableKey(key) => keyOut = CanonicalOf(key)
        /\ ~IsTableKey(key) => keyOut = CollapsedUntrimmed(key)
        /\ key = K_foo_bar => keyOut = K_dash_foo_bar_dash

\* C10 amended: on a hit the canonical key ("CENTRAL INDEX KEY" gives
\* "cik"); on a miss the key lowercased with every run of whitespace that
\* follows a non-whitespace character collapsed to one '-', leading
\* whitespace dropped and trailing whitespace kept as one '-'
\* ("UNKNOWN FIELD" gives "unknown-field").
C10_StandardizeKey ==
    keyPc # "in" =>
        /\ IsTableKey(key) => keyOut = CanonicalOf(key)
        /\ ~IsTableKey(key) => keyOut = CollapsedLeadingDropped(key)
        /\ key = K_CENTRAL_INDEX_KEY => keyOut = K_cik
        /\ key = K_UNKNOWN_FIELD => keyOut = K_unknown_field

\* C10 witness: a miss with leading, inner and trailing runs of whitespace
\* was standardized.
C10_Witness ==
    /\ keyPc = "once"
    /\ key = K_foo_bar
    /\ keyOut = <<102,111,111,45,98,97,114,45>>  \* "foo-bar-"

(***************************************************************************)
(* Specification SpecUu: encode with the standard encoder, then decode     *)
(***************************************************************************)

\* The bound on the length of the byte strings encoded.
MaxBytes == 3

\* The bytes of the encoded strings: NUL, 1, '0', '1', 'A', 'C', 'a', 't', 255.
UuAlphabet == {0, 1, 48, 49, 65, 67, 97, 116, 255}

B_Cat == <<67,97,116>>  \* "Cat"

UuInit ==
    /\ uuBytes \in SeqsUpTo(UuAlphabet, MaxBytes)
    /\ uuText = <<>>
    /\ uuOut = <<>>
    /\ uuPc = "in"
    /\ KeyIdle /\ TreeIdle /\ ParseIdle /\ TarIdle /\ CallIdle

\* The standard encoder is run on the bytes.
UuEncodeStep ==
    /\ uuPc = "in"
    /\ uuText' = UuEncode(uuBytes)
    /\ uuPc' = "encoded"
    /\ UNCHANGED <<uuBytes, uuOut, notUu>>

\* A call decode_uuencoded(uuText).
UuDecodeStep ==
    /\ uuPc = "encoded"
    /\ uuOut' = DecodeUuencoded(uuText)
    /\ uuPc' = "decoded"
    /\ UNCHANGED <<uuBytes, uuText, notUu>>

UuNext == UuEncodeStep \/ UuDecodeStep

SpecUu == UuInit /\ [][UuNext]_vars

(***************************************************************************)
(* Claims about the UU codec                                               *)
(***************************************************************************)

\* C9: UU round trip: a short byte string encoded with the standard UU
\* algorithm (begin line, data lines led by a length character, backtick
\* sentinel line, end line) and decoded with decode_uuencoded comes back
\* unchanged; "Cat" is encoded as the data line "#0V%T".
C9_RoundTrip ==
    /\ uuPc = "decoded" => uuOut = uuBytes
    /\ (uuPc # "in" /\ uuBytes = B_Cat) =>
           uuText = <<98,101,103,105,110,32,54,52,52,32,102,10,
                      35,48,86,37,84,10, 96,10, 101,110,100,10>>

(***************************************************************************)
(* Specification SpecParse: parse_sgml on a header followed by documents   *)
(***************************************************************************)

\* The bound on the number of documents of an input.
MaxDocs == 2

\* A header in the default tab format.
\*   <SEC-DOCUMENT>x.txt : 1\n
HeaderTabDefault ==
    <<60,83,69,67,45,68,79,67,85,77,69,78,84,62,120,46,116,120,116,32,58,32,
      49,10>>

\* A header in the archive format.
\*   <SUBMISSION>\n
\*   <TYPE>10-K\n
HeaderArchive ==
    <<60,83,85,66,77,73,83,83,73,79,78,62,10,60,84,89,80,69,62,49,48,45,75,
      10>>

\* A header in the privacy-enhanced tab format.
\*   -----BEGIN PRIVACY-ENHANCED MESSAGE-----\n
\*   \n
\*   <SEC-DOCUMENT>x.txt : 1\n
HeaderTabPrivacy ==
    <<45,45,45,45,45,66,69,71,73,78,32,80,82,73,86,65,67,89,45,69,78,72,65,
      78,67,69,68,32,77,69,83,83,65,71,69,45,45,45,45,45,10,10,60,83,69,67,
      45,68,79,67,85,77,69,78,84,62,120,46,116,120,116,32,58,32,49,10>>

\* A 10-K document of plain text.
\*   <DOCUMENT>\n
\*   <TYPE>10-K\n
\*   <TEXT>\n
\*   ab \n
\*   </TEXT>\n
\*   </DOCUMENT>\n
DocPlain ==
    <<60,68,79,67,85,77,69,78,84,62,10,60,84,89,80,69,62,49,48,45,75,10,60,
      84,69,88,84,62,10,97,98,32,10,60,47,84,69,88,84,62,10,60,47,68,79,67,
      85,77,69,78,84,62,10>>

\* An EX-99 document in an <XML> wrapper.
\*   <DOCUMENT>\n
\*   <TYPE>EX-99\n
\*   <TEXT>\n
\*   <XML>\n
\*   <a/>\n
\*   </XML>\n
\*   </TEXT>\n
\*   </DOCUMENT>\n
DocXml ==
    <<60,68,79,67,85,77,69,78,84,62,10,60,84,89,80,69,62,69,88,45,57,57,10,
      60,84,69,88,84,62,10,60,88,77,76,62,10,60,97,47,62,10,60,47,88,77,76,
      62,10,60,47,84,69,88,84,62,10,60,47,68,79,67,85,77,69,78,84,62,10>>

\* A 10-K document holding the uuencoded bytes "Cat".
\*   <DOCUMENT>\n
\*   <TYPE>10-K\n
\*   <TEXT>\n
\*   begin 644 f\n
\*   #0V%T\n
\*   `\n
\*   end\n
\*   </TEXT>\n
\*   </DOCUMENT>\n
DocUu ==
    <<60,68,79,67,85,77,69,78,84,62,10,60,84,89,80,69,62,49,48,45,75,10,60,
      84,69,88,84,62,10,98,101,103,105,110,32,54,52,52,32,102,10,35,48,86,
      37,84,10,96,10,101,110,100,10,60,47,84,69,88,84,62,10,60,47,68,79,67,
      85,77,69,78,84,62,10>>

\* A document without a type and without </TEXT>.
\*   <DOCUMENT>\n
\*   <SEQUENCE>1\n
\*   <TEXT>\n
\*   x\n
\*   </DOCUMENT>\n
DocNoType ==
    <<60,68,79,67,85,77,69,78,84,62,10,60,83,69,81,85,69,78,67,69,62,49,10,
      60,84,69,88,84,62,10,120,10,60,47,68,79,67,85,77,69,78,84,62,10>>

\* A document whose type tag is written in lowercase.
\*   <DOCUMENT>\n
\*   <type>10-K\n
\*   <TEXT>\r\n
\*   y\r\n
\*   </TEXT>\n
\*   </DOCUMENT>\n
DocLowerTag ==
    <<60,68,79,67,85,77,69,78,84,62,10,60,116,121,112,101,62,49,48,45,75,10,
      60,84,69,88,84,62,13,10,121,13,10,60,47,84,69,88,84,62,10,60,47,68,79,
      67,85,77,69,78,84,62,10>>

\* A document without <TEXT>.
\*   <DOCUMENT>\n
\*   <TYPE>10-K\n
\*   </DOCUMENT>\n
DocNoText ==
    <<60,68,79,67,85,77,69,78,84,62,10,60,84,89,80,69,62,49,48,45,75,10,60,
      47,68,79,67,85,77,69,78,84,62,10>>

\* A 10-K document with a SEC ACT field whose value is U+20AC and " Act".
\*   <DOCUMENT>\n
\*   <TYPE>10-K\n
\*   <SEC ACT>(E2 82 AC) Act\n
\*   <TEXT>\n
\*   z\n
\*   </TEXT>\n
\*   </DOCUMENT>\n
DocSecAct ==
    <<60,68,79,67,85,77,69,78,84,62,10,60,84,89,80,69,62,49,48,45,75,10,
      60,83,69,67,32,65,67,84,62,226,130,172,32,65,99,116,10,60,84,69,88,84,
      62,10,122,10,60,47,84,69,88,84,62,10,60,47,68,79,67,85,77,69,78,84,
      62,10>>

V_10_K == <<49,48,45,75>>  \* "10-K"
V_EX_99 == <<69,88,45,57,57>>  \* "EX-99"

\* A header of blanks and a dash: " \t\r\n-\n"
HeaderBlankDash == <<32,9,13,10,45,10>>

\* A header that begins like a tag other than <SE...: "<S>\n"
HeaderOtherTag == <<60,83,62,10>>

ParseHeaders ==
    {HeaderTabDefault, HeaderArchive, HeaderTabPrivacy, HeaderBlankDash,
     HeaderOtherTag, <<>>}

ParseDocs == {DocPlain, DocXml, DocUu, DocNoType, DocLowerTag, DocNoText, DocSecAct}

\* The ParseOptions of the calls: no filter or the filter ["10-K"], either
\* retention policy, standardized or raw keys, parallel or sequential.
ParseOptionsSet ==
    [filter_document_types : {<<>>, <<V_10_K>>},
     keep_filtered_metadata : BOOLEAN,
     standardize_metadata : BOOLEAN,
     parallel : BOOLEAN]

\* The inputs: every header before at most one document, and the default
\* tab header and the archive header before up to MaxDocs documents.
ParseInputs ==
    {h \o Concat(ds) : h \in ParseHeaders, ds \in SeqsUpTo(ParseDocs, 1)}
        \cup {h \o Concat(ds) : h \in {HeaderTabDefault, HeaderArchive},
                                ds \in SeqsUpTo(ParseDocs, MaxDocs)}

ParseInit ==
    /\ sgml \in ParseInputs
    /\ opts \in ParseOptionsSet
    /\ fmt = ""
    /\ headerFields = <<>>
    /\ docBoundaries = <<>>
    /\ parsedDocs = <<>>
    /\ parsed = None
    /\ parsePc = "in"
    /\ KeyIdle /\ UuIdle /\ TreeIdle /\ TarIdle /\ CallIdle

\* parse_sgml up to the documents: the boundaries are found and the
\* header, the bytes before the first document, is parsed.
ParseBegin ==
    /\ parsePc = "in"
    /\ LET b == FindDocumentBoundaries(sgml)
           headerEnd == IF b = <<>> THEN Len(sgml) ELSE b[1][1]
           h == ParseSubmissionMetadata(Slice(sgml, 0, headerEnd),
                                        opts.standardize_metadata)
       IN  /\ docBoundaries' = b
           /\ fmt' = h.format
           /\ headerFields' = h.fields
           /\ parsedDocs' = [i \in 1..Len(b) |-> None]
    /\ parsePc' = "docs"
    /\ UNCHANGED <<sgml, opts, parsed, notParse>>

\* Whether span i has been parsed into Ok.
ParsedOk(i) == IsSome(parsedDocs[i]) /\ Unwrap(parsedDocs[i]).ok

\* parse_single_document on span i.  The sequential iterator takes the
\* spans in order and stops at the first Err; the parallel one takes them
\* in any order.
ParseDocument(i) ==
    /\ parsePc = "docs"
    /\ parsedDocs[i] = None
    /\ (opts.parallel /\ Len(docBoundaries) > 1) \/ \A j \in 1..(i - 1) : ParsedOk(j)
    /\ parsedDocs' = [parsedDocs EXCEPT ![i] =
           Some(ParseSingleDocument(Slice(sgml, docBoundaries[i][1], docBoundaries[i][2]),
                                    fmt, opts.standardize_metadata))]
    /\ UNCHANGED <<sgml, opts, fmt, headerFields, docBoundaries, parsed, parsePc, notParse>>

\* Whether the parse of span i has panicked.
ParsedPanicked(i) ==
    /\ IsSome(parsedDocs[i])
    /\ ~Unwrap(parsedDocs[i]).ok /\ Unwrap(parsedDocs[i]).err = "panicked"

\* A panic of parse_single_document unwinds through parse_sgml; the
\* parallel iterator resumes a worker's panic in the caller.
ParsePanic ==
    /\ parsePc = "docs"
    /\ \E i \in 1..Len(parsedDocs) : ParsedPanicked(i)
    /\ parsePc' = "panicked"
    /\ UNCHANGED <<sgml, opts, fmt, headerFields, docBoundaries, parsedDocs, parsed, notParse>>

\* collect::<Result<Vec<_>>>()? on an Err: parse_sgml returns it.
ParseFail ==
    /\ parsePc = "docs"
    /\ \A i \in 1..Len(parsedDocs) : ~ParsedPanicked(i)
    /\ \E i \in 1..Len(parsedDocs) :
          /\ IsSome(parsedDocs[i]) /\ ~Unwrap(parsedDocs[i]).ok
          /\ parsed' = Some([ok |-> FALSE, err |-> Unwrap(parsedDocs[i]).err])
    /\ parsePc' = "done"
    /\ UNCHANGED <<sgml, opts, fmt, headerFields, docBoundaries, parsedDocs, notParse>>

\* The rest of parse_sgml once every span is parsed into Ok: unzip,
\* apply_filter, and the ParsedSubmission returned.
ParseAssemble ==
    /\ parsePc = "docs"
    /\ \A i \in 1..Len(parsedDocs) : ParsedOk(i)
    /\ LET docMetas == [i \in 1..Len(parsedDocs) |-> Unwrap(parsedDocs[i]).meta]
           documents == [i \in 1..Len(parsedDocs) |-> Unwrap(parsedDocs[i]).content]
           f == ApplyFilter(docMetas, documents, opts)
       IN  parsed' = Some([ok |-> TRUE,
                           metadata |-> [fields |-> headerFields, documents |-> f[1]],
                           documents |-> f[2],
                           format |-> fmt])
    /\ parsePc' = "done"
    /\ UNCHANGED <<sgml, opts, fmt, headerFields, docBoundaries, parsedDocs, notParse>>

ParseNext ==
    \/ ParseBegin
    \/ \E i \in 1..Len(docBoundaries) : ParseDocument(i)
    \/ ParseFail
    \/ ParsePanic
    \/ ParseAssemble

SpecParse == ParseInit /\ [][ParseNext]_vars

(***************************************************************************)
(* Claims about parse_sgml and apply_filter                                *)
(***************************************************************************)

\* parse_sgml has returned Ok.
ParsedSubmissionReturned == parsePc = "done" /\ Unwrap(parsed).ok

\* The metadata and the payload parsed from span i.
MetaOf(i) == Unwrap(parsedDocs[i]).meta
PayloadOf(i) == Unwrap(parsedDocs[i]).content

\* The type field of a document's metadata, standardized or raw as
\* configured: the key "type" or "TYPE".
HasTypeField(meta) ==
    (IF opts.standardize_metadata THEN K_type ELSE K_TYPE) \in DOMAIN meta.fields
TypeFieldOf(meta) ==
    meta.fields[IF opts.standardize_metadata THEN K_type ELSE K_TYPE]

\* The spans whose document has a type field equal to some filter value.
SelectedSpans ==
    {i \in 1..Len(parsedDocs) :
        /\ HasTypeField(MetaOf(i))
        /\ \E j \in 1..Len(opts.filter_document_types) :
              opts.filter_document_types[j] = TypeFieldOf(MetaOf(i))}

\* The j-th smallest element of a set of numbers.
NthOf(S, j) == CHOOSE i \in S : Cardinality({k \in S : k < i}) = j - 1

\* C4: with no filter, or with a filter and keep_filtered_metadata = false,
\* parse_sgml returns a payload list and a metadata list of the same
\* length whose entries i come from the same document; with no filter they
\* are all documents in order, under the discard policy exactly the
\* documents whose type field equals some filter value, in their original
\* order.
C4_ParallelLists ==
    (/\ ParsedSubmissionReturned
     /\ (opts.filter_document_types = <<>> \/ ~opts.keep_filtered_metadata)) =>
        LET metas == Unwrap(parsed).metadata.documents
            payloads == Unwrap(parsed).documents
            kept == IF opts.filter_document_types = <<>>
                    THEN 1..Len(parsedDocs) ELSE SelectedSpans
        IN  /\ Len(payloads) = Len(metas)
            /\ Len(metas) = Cardinality(kept)
            /\ \A j \in 1..Len(metas) :
                  /\ metas[j] = MetaOf(NthOf(kept, j))
                  /\ payloads[j] = PayloadOf(NthOf(kept, j))

\* C4 witness: under the discard policy with the filter ["10-K"], an EX-99
\* document followed by a 10-K document was parsed and only the second was
\* returned, in both lists.
C4_Witness ==
    /\ ParsedSubmissionReturned
    /\ opts.filter_document_types = <<V_10_K>>
    /\ ~opts.keep_filtered_metadata
    /\ Len(parsedDocs) = 2
    /\ SelectedSpans = {2}
    /\ Len(Unwrap(parsed).documents) = 1
    /\ Len(Unwrap(parsed).metadata.documents) = 1

\* C5: with a non-empty filter and keep_filtered_metadata = true, the
\* metadata of all documents is kept, unchanged and in span order, and the
\* payloads returned are exactly those of the documents whose type field
\* equals some filter value, in order.
C5_KeepFilteredMetadata ==
    (/\ ParsedSubmissionReturned
     /\ opts.filter_document_types # <<>>
     /\ opts.keep_filtered_metadata) =>
        LET metas == Unwrap(parsed).metadata.documents
            payloads == Unwrap(parsed).documents
        IN  /\ Len(metas) = Len(parsedDocs)
            /\ \A i \in 1..Len(metas) : metas[i] = MetaOf(i)
            /\ Len(payloads) = Cardinality(SelectedSpans)
            /\ \A j \in 1..Len(payloads) :
                  payloads[j] = PayloadOf(NthOf(SelectedSpans, j))

\* C5 witness: under the keep policy with the filter ["10-K"], of two
\* documents only the first is selected: two metadata entries and one
\* payload are returned.
C5_Witness ==
    /\ ParsedSubmissionReturned
    /\ opts.filter_document_types = <<V_10_K>>
    /\ opts.keep_filtered_metadata
    /\ SelectedSpans = {1}
    /\ Len(Unwrap(parsed).metadata.documents) = 2
    /\ Len(Unwrap(parsed).documents) = 1

\* C6: for every document returned together with its payload (no filter,
\* or the discard policy), secsgml_size_bytes is the length of the final
\* payload, after UU decoding or wrapper cleaning.
C6_SizeIsPayloadLength ==
    (/\ ParsedSubmissionReturned
     /\ (opts.filter_document_types = <<>> \/ ~opts.keep_filtered_metadata)) =>
        LET metas == Unwrap(parsed).metadata.documents
            payloads == Unwrap(parsed).documents
        IN  \A i \in 1..Len(payloads) :
                i <= Len(metas) /\ metas[i].size_bytes = Len(payloads[i])

\* C6 witness: a uuencoded document and a wrapped one were returned, the
\* sizes recorded being those of the decoded and of the cleaned payload,
\* both shorter than the raw bytes between the TEXT tags.
C6_Witness ==
    /\ ParsedSubmissionReturned
    /\ opts.filter_document_types = <<>>
    /\ Len(parsedDocs) = 2
    /\ IsUuencoded(Unwrap(parsedDocs[1]).raw)
    /\ Unwrap(parsed).documents[1] = <<67,97,116>>  \* "Cat"
    /\ Unwrap(parsed).metadata.documents[1].size_bytes = 3
    /\ Len(Unwrap(parsedDocs[1]).raw) > 3
    /\ ~IsUuencoded(Unwrap(parsedDocs[2]).raw)
    /\ Unwrap(parsed).documents[2] = <<60,97,47,62>>  \* "<a/>"
    /\ Unwrap(parsed).metadata.documents[2].size_bytes = 4
    /\ Len(Unwrap(parsedDocs[2]).raw) > 4

\* The header prefix of the input: the bytes before the first span.
HeaderPrefix ==
    Slice(sgml, 0, IF docBoundaries = <<>> THEN Len(sgml) ELSE docBoundaries[1][1])

\* A byte string from its first byte that is not space, tab, CR or LF.
FromFirstNonWhitespace(b) ==
    LET I == {i \in 1..Len(b) : b[i] \notin {32, 9, 13, 10}}
    IN  IF I = {} THEN <<>>
        ELSE SubSeq(b, CHOOSE i \in I : \A j \in I : i <= j, Len(b))

\* The dialect the first non-whitespace bytes of a prefix stand for.
DialectOf(prefix) ==
    LET first == FromFirstNonWhitespace(prefix)
    IN  IF Len(first) >= 1 /\ first[1] = 45 THEN "TabPrivacy"
        ELSE IF Len(first) >= 3 /\ SubSeq(first, 1, 3) = <<60,83,69>> THEN "TabDefault"
        ELSE "Archive"

\* C12: the detected format depends only on the first non-whitespace bytes
\* of the header prefix ('-' is TabPrivacy, "<SE" is TabDefault, everything
\* else, the empty prefix and "<SUBMISSION>" included, is Archive), and it is
\* the format of the ParsedSubmission returned.
C12_DetectedFormat ==
    /\ parsePc # "in" => fmt = DialectOf(HeaderPrefix)
    /\ ParsedSubmissionReturned => Unwrap(parsed).format = DialectOf(HeaderPrefix)
    /\ (parsePc # "in" /\ HeaderPrefix \in {<<>>, HeaderArchive}) => fmt = "Archive"

\* A submission returned as TabPrivacy whose header prefix begins with
\* whitespace before the dash.
C12_Witness ==
    /\ ParsedSubmissionReturned
    /\ Len(docBoundaries) >= 1
    /\ HeaderPrefix = HeaderBlankDash
    /\ Unwrap(parsed).format = "TabPrivacy"

(***************************************************************************)
(* Specification SpecTar: write_to_tar_writer on a ParsedSubmission as     *)
(* parse_sgml returns it                                                   *)
(***************************************************************************)

\* The bound on the number of documents of a submission.
MaxTarDocs == 2

\* The length of the long header value: with it the metadata JSON of two
\* documents without a filename is a whole number of blocks.
NoteLen == 259

K_note == <<110,111,116,101>>  \* "note"

\* The documents: their metadata fields and their payload.
TarDocs ==
    {[fields |-> MapInsert(MapInsert(EmptyMap, K_type, V_10_K),
                           K_filename, <<97,46,104,116,109>>),  \* "a.htm"
      payload |-> Bytes(<<67,97,116>>)],                        \* "Cat"
     [fields |-> MapInsert(MapInsert(EmptyMap, K_type, V_EX_99), K_sequence, <<50>>),
      payload |-> Bytes(<<>>)],
     [fields |-> MapInsert(EmptyMap, K_type, V_10_K),
      payload |-> Repeat(65, U(BLOCK_SIZE))],                   \* a block of 'A'
     [fields |-> MapInsert(EmptyMap, K_type, V_10_K),
      payload |-> Repeat(65, <<5, 0>>)],                        \* 5 * 10^9 'A'
     [fields |-> MapInsert(EmptyMap, K_type, V_EX_99),
      payload |-> [pre |-> <<66>>, fill |-> 67, n |-> <<9, 0>>]]}  \* 'B', 9 * 10^9 'C'

\* The header fields of the submission: none, or one long value.
TarHeaderFields ==
    {EmptyMap, MapInsert(EmptyMap, K_note, MvString([i \in 1..NoteLen |-> 97]))}

\* The options the submission was parsed with: standardized keys with no
\* filter or the filter ["10-K"] under either retention policy, and raw
\* keys with no filter.
TarOptions ==
    ({[filter_document_types |-> f, keep_filtered_metadata |-> k,
       standardize_metadata |-> TRUE] :
         f \in {<<>>, <<V_10_K>>}, k \in BOOLEAN} \
     {[filter_document_types |-> <<>>, keep_filtered_metadata |-> TRUE,
       standardize_metadata |-> TRUE]})
        \cup {[filter_document_types |-> <<>>, keep_filtered_metadata |-> FALSE,
               standardize_metadata |-> FALSE]}

\* The fields of a document as parse_document_metadata keys them: the tags
\* <TYPE>, <FILENAME> and <SEQUENCE> standardized to lowercase, or raw.
KeyedFields(fields, standardize) ==
    IF standardize THEN fields
    ELSE [K \in {UpperCased(k) : k \in DOMAIN fields} |->
             fields[CHOOSE k \in DOMAIN fields : UpperCased(k) = K]]

K_FILENAME == <<70,73,76,69,78,65,77,69>>  \* "FILENAME"
K_SEQUENCE == <<83,69,81,85,69,78,67,69>>  \* "SEQUENCE"

\* The iteration orders of the maps' keys.
TarOrders ==
    {<<K_note, K_type, K_filename, K_sequence, K_TYPE, K_FILENAME, K_SEQUENCE>>,
     <<K_SEQUENCE, K_FILENAME, K_TYPE, K_sequence, K_filename, K_type, K_note>>}

TarInit ==
    /\ \E ds \in SeqsUpTo(TarDocs, MaxTarDocs), o \in TarOptions, hf \in TarHeaderFields :
          LET docMetas == [i \in 1..Len(ds) |->
                              [fields |-> KeyedFields(ds[i].fields, o.standardize_metadata),
                               size_bytes |-> RunLen(ds[i].payload),
                               start_byte |-> None,
                               end_byte |-> None]]
              f == ApplyFilter(docMetas, [i \in 1..Len(ds) |-> ds[i].payload], o)
          IN  submission = [metadata |-> [fields |-> hf, documents |-> f[1]],
                            documents |-> f[2]]
    /\ hashOrder \in TarOrders
    /\ tarMetadata = <<>>
    /\ metadataSize = <<0, 0>>
    /\ archive = <<>>
    /\ docIndex = 0
    /\ tarPc = "start"
    /\ KeyIdle /\ UuIdle /\ TreeIdle /\ ParseIdle /\ CallIdle

\* write_to_tar_writer: the metadata is cloned and calculate_tar_positions
\* writes the positions into the clone.
TarCalculatePositions ==
    /\ tarPc = "start"
    /\ LET r == CalculateTarPositions(submission.metadata, submission.documents, hashOrder)
       IN  IF r.ok
           THEN /\ tarMetadata' = r.metadata
                /\ metadataSize' = r.metadata_size
                /\ tarPc' = "calculated"
           ELSE /\ tarPc' = "panicked"
                /\ UNCHANGED <<tarMetadata, metadataSize>>
    /\ UNCHANGED <<submission, hashOrder, archive, docIndex, notTar>>

\* write_to_tar_writer: the metadata is serialized and written as the
\* entry metadata.json.
TarWriteMetadata ==
    /\ tarPc = "calculated"
    /\ LET entry == WriteTarEntry(B_metadata_json, Bytes(MetadataJson(tarMetadata, hashOrder)))
       IN  IF IsSome(entry)
           THEN archive' = archive \o Unwrap(entry) /\ tarPc' = "docs"
           ELSE archive' = archive /\ tarPc' = "panicked"
    /\ docIndex' = 1
    /\ UNCHANGED <<submission, hashOrder, tarMetadata, metadataSize, notTar>>

\* write_to_tar_writer: one turn of the loop over the documents.
TarWriteDocument ==
    /\ tarPc = "docs"
    /\ docIndex <= Len(submission.documents)
    /\ LET entry == WriteTarEntry(MemberName(tarMetadata.documents[docIndex], docIndex),
                                  submission.documents[docIndex])
       IN  IF docIndex <= Len(tarMetadata.documents) /\ IsSome(entry)
           THEN archive' = archive \o Unwrap(entry) /\ tarPc' = "docs"
           ELSE archive' = archive /\ tarPc' = "panicked"
    /\ docIndex' = docIndex + 1
    /\ UNCHANGED <<submission, hashOrder, tarMetadata, metadataSize, notTar>>

\* write_to_tar_writer: the two zero blocks at the end of the archive.
TarWriteEnd ==
    /\ tarPc = "docs"
    /\ docIndex > Len(submission.documents)
    /\ archive' = archive \o <<Repeat(0, U(BLOCK_SIZE)), Repeat(0, U(BLOCK_SIZE))>>
    /\ tarPc' = "done"
    /\ UNCHANGED <<submission, hashOrder, tarMetadata, metadataSize, docIndex, notTar>>

TarNext ==
    \/ TarCalculatePositions
    \/ TarWriteMetadata
    \/ TarWriteDocument
    \/ TarWriteEnd

SpecTar == TarInit /\ [][TarNext]_vars

(***************************************************************************)
(* Claims about the tar writer                                             *)
(***************************************************************************)

\* calculate_tar_positions has returned.
PositionsCalculated == tarPc \in {"calculated", "docs", "done"}

\* The offsets of document i as metadata.json gives them, parsed as
\* decimal numbers.
StartOf(i) == ParseUsize(Unwrap(tarMetadata.documents[i].start_byte))
EndOf(i) == ParseUsize(Unwrap(tarMetadata.documents[i].end_byte))

\* The padding after x bytes up to the next multiple of 512.
PadTo512(x) == (512 - UMod(x, 512)) % 512

\* The metadata with the placeholder in every start and end field.
WithPlaceholders ==
    [tarMetadata EXCEPT !.documents =
        [i \in 1..Len(tarMetadata.documents) |->
            [tarMetadata.documents[i] EXCEPT !.start_byte = Some(PLACEHOLDER),
                                             !.end_byte = Some(PLACEHOLDER)]]]

\* M: the length of the metadata JSON measured with the placeholders.
PlaceholderJsonLen == U(Len(MetadataJson(WithPlaceholders, hashOrder)))

\* The payload list is parallel to metadata.documents.
ListsParallel == Len(submission.documents) = Len(submission.metadata.documents)

\* C1: for a submission whose payload list is parallel to its metadata
\* list, after write_to_tar_writer the member at archive offset 512 is the
\* metadata JSON, and for every document i the archive bytes from its
\* secsgml_start_byte to its secsgml_end_byte are payload i, byte for byte.
C1_RangesEqualPayloads ==
    (tarPc = "done" /\ ListsParallel) =>
        /\ OffsetOf(archive, 2) = U(512)
        /\ archive[2].pre = MetadataJson(tarMetadata, hashOrder)
        /\ \A i \in 1..Len(submission.documents) :
              SliceEquals(archive, StartOf(i), EndOf(i), submission.documents[i])

\* C2: the metadata JSON carrying the final offsets has the length M of
\* the JSON carrying the placeholders, for every submission and payload
\* size: every start and end written is exactly ten decimal digits.
C2_JsonLengthStable ==
    PositionsCalculated =>
        /\ U(Len(MetadataJson(tarMetadata, hashOrder))) = metadataSize
        /\ metadataSize = PlaceholderJsonLen
        /\ \A i \in 1..Len(tarMetadata.documents) :
              \A str \in {Unwrap(tarMetadata.documents[i].start_byte),
                          Unwrap(tarMetadata.documents[i].end_byte)} :
                  Len(str) = 10 /\ \A j \in 1..Len(str) : IsAsciiDigit(str[j])

\* C3: the offsets computed by calculate_tar_positions follow the tar
\* layout.  With M the metadata JSON length it measured, the first
\* payload's header begins at 512 + M + pad(M) and start_0 is 512 past
\* that; for every document i > 0, start_i is at least end_{i-1} plus the
\* padding of end_{i-1} to a multiple of 512 plus 512, and so strictly
\* after end_{i-1}.
C3_OffsetsFollowLayout ==
    PositionsCalculated =>
        LET M == PlaceholderJsonLen
            afterMetadata == UAdd(U(512), UAdd(M, U(PadTo512(M))))
        IN  /\ metadataSize = M
            /\ Len(submission.documents) >= 1 => StartOf(1) = UAdd(afterMetadata, U(512))
            /\ \A i \in 2..Len(submission.documents) :
                  /\ ULe(UAdd(EndOf(i - 1), U(PadTo512(EndOf(i - 1)) + 512)), StartOf(i))
                  /\ ULt(EndOf(i - 1), StartOf(i))

\* C3 witness: positions were calculated for two documents where neither
\* M nor the first document's end is a multiple of 512, and the second
\* document's end needs more than ten digits.
C3_Witness ==
    /\ tarPc = "calculated"
    /\ Len(submission.documents) = 2
    /\ UMod(metadataSize, 512) # 0
    /\ PadTo512(EndOf(1)) # 0
    /\ ULe(<<10, 0>>, EndOf(2))


(***************************************************************************)
(* Specification SpecXform: one call transform_value(key, value)           *)
(***************************************************************************)

\* The bound on the number of pieces a generated value is made of.
MaxPieces == 3

K_SEC_ACT == <<83,69,67,32,65,67,84>>
K_sec_act == <<115,101,99,32,97,99,116>>
K_SIC == <<83,84,65,78,68,65,82,68,32,73,78,68,85,83,84,82,73,65,76,32,67,76,65,83,83,73,70,73,67,65,84,73,79,78>>
K_COMPANY_CONFORMED_NAME == <<67,79,77,80,65,78,89,32,67,79,78,70,79,82,77,69,68,32,78,65,77,69>>
V_1934_Act == <<49,57,51,52,32,65,99,116>>
V_SERVICES_7370 == <<83,69,82,86,73,67,69,83,32,91,55,51,55,48,93>>
V_ACME_CORP == <<65,67,77,69,32,67,79,82,80>>

XformKeys == {K_SEC_ACT, K_sec_act, K_SIC, K_COMPANY_CONFORMED_NAME, K_UNKNOWN_FIELD}

\* The pieces of a value: "1", "9", "x", U+00E9, U+20AC, " Act", "[", "]".
XformPieces == {<<49>>, <<57>>, <<120>>, <<233>>, <<8364>>, B_sp_Act, <<91>>, <<93>>}

XformValues ==
    {Concat(q) : q \in SeqsUpTo(XformPieces, MaxPieces)}
        \cup {V_1934_Act, V_SERVICES_7370, V_ACME_CORP}

XformInit ==
    /\ callArgs \in [fn : {"transform_value"}, key : XformKeys, value : XformValues]
    /\ callRet = None
    /\ callPc = "in"
    /\ KeyIdle /\ UuIdle /\ TreeIdle /\ ParseIdle /\ TarIdle

\* The call transform_value(key, value): it returns, or its slice panics.
TransformValueCall ==
    /\ callPc = "in"
    /\ callArgs.fn = "transform_value"
    /\ LET r == TransformValueOrPanic(callArgs.key, callArgs.value)
       IN  /\ callRet' = r
           /\ callPc' = IF IsSome(r) THEN "returned" ELSE "panicked"
    /\ UNCHANGED <<callArgs, notCall>>

XformNext == TransformValueCall

SpecXform == XformInit /\ [][XformNext]_vars

\* The pattern of the table entry of the lowercased key, "none" without one.
PatternOf(k) ==
    LET hits == MappingGet([i \in 1..Len(k) |-> ToLowercase(k[i])])
    IN  IF hits = {} THEN "none" ELSE HeaderMappings[CHOOSE i \in hits : TRUE].regex

\* What the statement of transform_value gives for key k and value v.
StatedTransform(k, v) ==
    LET value == StringBytes(v)
        actPos == Find(value, B_sp_Act)
        open == IndexOfByte(value, 91, 0)
        close == IndexOfByte(value, 93, 0)
        between == Slice(value, open + 1, close)
    IN  IF /\ PatternOf(k) = "act" /\ actPos >= 2
           /\ IsAsciiDigit(value[actPos - 1]) /\ IsAsciiDigit(value[actPos])
        THEN <<value[actPos - 1], value[actPos]>>
        ELSE IF /\ PatternOf(k) = "bracket_digits" /\ open >= 0 /\ close > open
                /\ \A i \in 1..Len(between) : IsAsciiDigit(between[i])
        THEN between
        ELSE v

\* C11: transform_value(k, v) returns the two digits before " Act" for the
\* act pattern, the digits between the first '[' and the first ']' for the
\* bracket_digits pattern, and v unchanged in every other case; in
\* particular every call returns.
C11_TransformValue ==
    callPc # "in" =>
        /\ callPc = "returned"
        /\ Unwrap(callRet) = StatedTransform(callArgs.key, callArgs.value)

\* C11 where transform_value returns and the bytes between the brackets are
\* not empty: there the statement and the code agree.
C11_WhereItReturns ==
    (callPc = "returned" /\ Find(StringBytes(callArgs.value), <<91, 93>>) = -1) =>
        Unwrap(callRet) = StatedTransform(callArgs.key, callArgs.value)

\* A call whose slice panics: " Act" follows a three-byte character.
C11_Panicked == callPc = "panicked"


(***************************************************************************)
(* Specification SpecScan: one call find_document_boundaries(data)         *)
(***************************************************************************)

\* The bound on the number of pieces the scanned data is made of.
MaxTokens == 6

\* The pieces of the data: the two tags, a byte of text, a stray "<".
ScanPieces == {DOC_START, DOC_END, <<120>>, <<60>>}

\* "header<DOCUMENT>doc1</DOCUMENT>middle<DOCUMENT>doc2</DOCUMENT>end"
ScanTestData ==
    <<104,101,97,100,101,114>> \o DOC_START \o <<100,111,99,49>> \o DOC_END
        \o <<109,105,100,100,108,101>> \o DOC_START \o <<100,111,99,50>> \o DOC_END \o <<101,110,100>>

ScanInit ==
    /\ \E q \in SeqsUpTo(ScanPieces, MaxTokens) :
          callArgs \in {[fn |-> "find_document_boundaries", data |-> Concat(q)],
                        [fn |-> "find_document_boundaries", data |-> ScanTestData]}
    /\ callRet = None
    /\ callPc = "in"
    /\ KeyIdle /\ UuIdle /\ TreeIdle /\ ParseIdle /\ TarIdle

\* The call find_document_boundaries(data).
FindDocumentBoundariesCall ==
    /\ callPc = "in"
    /\ callArgs.fn = "find_document_boundaries"
    /\ callRet' = Some(FindDocumentBoundaries(callArgs.data))
    /\ callPc' = "returned"
    /\ UNCHANGED <<callArgs, notCall>>

ScanNext == FindDocumentBoundariesCall

SpecScan == ScanInit /\ [][ScanNext]_vars

\* The 0-based positions at or after p where tag occurs in data.
OccurrencesFrom(data, tag, p) ==
    {i \in p..(Len(data) - Len(tag)) : SubSeq(data, i + 1, i + Len(tag)) = tag}

\* The least element of a non-empty set of positions.
Least(S) == CHOOSE i \in S : \A j \in S : i <= j

\* C13: the spans returned are in increasing order and do not overlap; each
\* begins at the first <DOCUMENT> at or after the end of the span before it
\* (after position 0 for the first) and ends just after the nearest
\* </DOCUMENT> that follows; the scan ends where no <DOCUMENT> follows or the
\* next <DOCUMENT> has no later </DOCUMENT>; the data
\* "header<DOCUMENT>doc1</DOCUMENT>middle<DOCUMENT>doc2</DOCUMENT>end" gives
\* exactly its two bracketed regions.
C13_DocumentBoundaries ==
    callPc = "returned" =>
        LET data == callArgs.data
            b == Unwrap(callRet)
            resume(i) == IF i = 1 THEN 0 ELSE b[i - 1][2]
            last == IF b = <<>> THEN 0 ELSE b[Len(b)][2]
            opens == OccurrencesFrom(data, DOC_START, last)
        IN  /\ \A i \in 1..Len(b) :
                  /\ OccurrencesFrom(data, DOC_START, resume(i)) # {}
                  /\ b[i][1] = Least(OccurrencesFrom(data, DOC_START, resume(i)))
                  /\ OccurrencesFrom(data, DOC_END, b[i][1]) # {}
                  /\ b[i][2] = Least(OccurrencesFrom(data, DOC_END, b[i][1])) + Len(DOC_END)
                  /\ b[i][1] < b[i][2]
                  /\ i > 1 => b[i - 1][2] <= b[i][1]
            /\ opens = {} \/ OccurrencesFrom(data, DOC_END, Least(opens)) = {}
            /\ data = ScanTestData => b = <<<<6, 31>>, <<37, 62>>>>

\* A scan that returned two spans, the first with an opening tag nested in
\* it, and then stopped at an opening tag that is never closed.
C13_Witness ==
    /\ callPc = "returned"
    /\ Len(Unwrap(callRet)) = 2
    /\ OccurrencesFrom(callArgs.data, DOC_START, 0) \cap 1..(Unwrap(callRet)[1][2] - 1) # {}
    /\ OccurrencesFrom(callArgs.data, DOC_START, Unwrap(callRet)[2][2]) # {}


(***************************************************************************)
(* Specification SpecWrap: one call fix_line_wraparound(data)              *)
(***************************************************************************)

\* The bound on the number of physical lines of the data.
MaxWrapLines == 3

\* A physical line of n bytes c.
LineOf(n, c) == [i \in 1..n |-> c]

\* The physical lines: ASCII lines of 0, 9, 1022, 1023 and 1024 bytes, and
\* a line of 512 bytes 0xE9, Latin-1 text that is not valid UTF-8.
WrapLineKinds ==
    {LineOf(n, 120) : n \in {0, 9, WrapLen - 1, WrapLen, WrapLen + 1}}
        \cup {LineOf(512, 233)}

\* The line terminators: LF and CR LF.
WrapTerminators == {<<10>>, <<13, 10>>}

WrapInit ==
    /\ \E ls \in SeqsUpTo(WrapLineKinds, MaxWrapLines), eol \in WrapTerminators :
          callArgs = [fn |-> "fix_line_wraparound",
                      lines |-> ls,
                      data |-> Concat([i \in 1..Len(ls) |-> ls[i] \o eol])]
    /\ callRet = None
    /\ callPc = "in"
    /\ KeyIdle /\ UuIdle /\ TreeIdle /\ ParseIdle /\ TarIdle

\* The call fix_line_wraparound(data).
FixLineWraparoundCall ==
    /\ callPc = "in"
    /\ callArgs.fn = "fix_line_wraparound"
    /\ callRet' = Some(FixLineWraparound(callArgs.data))
    /\ callPc' = "returned"
    /\ UNCHANGED <<callArgs, notCall>>

WrapNext == FixLineWraparoundCall

SpecWrap == WrapInit /\ [][WrapNext]_vars

\* The physical lines that start a logical line: the first, and every line
\* whose predecessor is shorter than 1023.
LogicalStarts(lines) ==
    {i \in 1..Len(lines) : i = 1 \/ Len(lines[i - 1]) < WrapLen}

\* The logical lines of physical lines as stated: every line of length
\* >= 1023 is joined with its successor, no shorter line is.
LogicalLines(lines) ==
    LET starts == LogicalStarts(lines)
        last(i) == IF \E j \in starts : j > i
                   THEN (CHOOSE j \in starts : j > i /\ \A k \in starts : k > i => j <= k) - 1
                   ELSE Len(lines)
    IN  [k \in 1..Cardinality(starts) |->
            ConcatRange(lines, NthOf(starts, k), last(NthOf(starts, k)))]

\* C14: fix_line_wraparound joins a physical line of length >= 1023 with
\* the next one without a separator, repeatedly until a shorter line ends
\* the logical line, and never joins a line shorter than 1023 with its
\* successor; lines of 1023 and 9 give one logical line of 1032.
C14_FixLineWraparound ==
    callPc = "returned" => Unwrap(callRet) = LogicalLines(callArgs.lines)

\* C14 on data without a byte above 127: there the code joins as stated.
C14_OnAscii ==
    (callPc = "returned" /\ \A i \in 1..Len(callArgs.data) : callArgs.data[i] < 128)
        => Unwrap(callRet) = LogicalLines(callArgs.lines)

\* Lines of 1023 and 9 joined into one logical line of 1032, followed by a
\* line that starts a new logical line.
C14_Joined ==
    /\ callPc = "returned"
    /\ Len(callArgs.lines) = 3
    /\ Len(callArgs.lines[1]) = WrapLen /\ Len(callArgs.lines[2]) = 9
    /\ Len(Unwrap(callRet)) = 2
    /\ Len(Unwrap(callRet)[1]) = 1032


(***************************************************************************)
(* Claims about the errors and the parallel path of parse_sgml             *)
(***************************************************************************)

\* The bytes of span i of the input.
SpanOf(i) == Slice(sgml, docBoundaries[i][1], docBoundaries[i][2])

\* Whether some span of the input contains no <TEXT> tag.
SomeSpanWithoutText ==
    \E i \in 1..Len(docBoundaries) : OccurrencesFrom(SpanOf(i), TEXT_START, 0) = {}

\* Whether span i has <TEXT> and no </TEXT> after it.
TextNeverClosed(i) ==
    LET opens == OccurrencesFrom(SpanOf(i), TEXT_START, 0)
    IN  /\ opens # {}
        /\ OccurrencesFrom(SpanOf(i), TEXT_END, Least(opens) + Len(TEXT_START)) = {}

\* parse_sgml has returned the structural error.
StructuralErrorReturned ==
    parsePc = "done" /\ ~Unwrap(parsed).ok /\ Unwrap(parsed).err = "InvalidStructure"

\* What the statement says of a call that has ended: the structural error
\* exactly when some span has no <TEXT>, and a span with <TEXT> but without
\* </TEXT> parsed without error into the bytes from after <TEXT> to the end
\* of the span.
ErrorsAsStated ==
    /\ StructuralErrorReturned <=> SomeSpanWithoutText
    /\ \A i \in 1..Len(docBoundaries) :
          (IsSome(parsedDocs[i]) /\ TextNeverClosed(i)) =>
              /\ Unwrap(parsedDocs[i]).ok
              /\ Unwrap(parsedDocs[i]).raw =
                     SliceFrom(SpanOf(i),
                               Least(OccurrencesFrom(SpanOf(i), TEXT_START, 0))
                                   + Len(TEXT_START))

\* C15: parse_sgml fails with the structural error, returning no
\* ParsedSubmission, if and only if some span contains no <TEXT> tag,
\* whatever the parallel setting; a span with <TEXT> but no </TEXT> is no
\* error and its raw payload runs from after <TEXT> to the end of the span.
C15_StructuralError == parsePc \in {"done", "panicked"} => ErrorsAsStated

\* C15 for the calls that return: there the errors are as stated.
C15_WhereItReturns == parsePc = "done" => ErrorsAsStated

\* A call that returned the structural error although another span is
\* valid, and one that returned Ok with a span whose <TEXT> is never closed.
C15_ErrorReturned ==
    /\ StructuralErrorReturned
    /\ \E i \in 1..Len(docBoundaries) : OccurrencesFrom(SpanOf(i), TEXT_START, 0) # {}
C15_NeverClosedReturned ==
    ParsedSubmissionReturned /\ \E i \in 1..Len(docBoundaries) : TextNeverClosed(i)

\* parse_single_document on span i, as a function of the input.
SpanOutcome(i) == ParseSingleDocument(SpanOf(i), fmt, opts.standardize_metadata)

\* The end of the sequential path on the input and options: the first
\* span in input order that does not parse into Ok ends the call with its
\* error or its panic; otherwise the spans in input order are assembled.
SequentialResult ==
    LET n == Len(docBoundaries)
        failures == {i \in 1..n : ~SpanOutcome(i).ok}
        docMetas == [i \in 1..n |-> SpanOutcome(i).meta]
        documents == [i \in 1..n |-> SpanOutcome(i).content]
        f == ApplyFilter(docMetas, documents, opts)
    IN  IF failures # {}
        THEN IF SpanOutcome(Least(failures)).err = "panicked"
             THEN <<"panicked", None>>
             ELSE <<"done", Some([ok |-> FALSE, err |-> SpanOutcome(Least(failures)).err])>>
        ELSE <<"done", Some([ok |-> TRUE,
                             metadata |-> [fields |-> headerFields, documents |-> f[1]],
                             documents |-> f[2],
                             format |-> fmt])>>

\* C17: when the spans are parsed in parallel, under every scheduling and
\* completion order, the call ends as the sequential path ends on the same
\* input and options, with the documents and the payloads in the order of
\* their spans in the input.
C17_ParallelAsSequential ==
    (parsePc \in {"done", "panicked"} /\ opts.parallel) =>
        <<parsePc, parsed>> = SequentialResult

\* C17 on the inputs none of whose spans panics: there every schedule of
\* the parallel path ends as the sequential path.
C17_WithoutPanic ==
    (/\ parsePc \in {"done", "panicked"} /\ opts.parallel
     /\ \A i \in 1..Len(docBoundaries) : SpanOutcome(i).ok \/ SpanOutcome(i).err # "panicked")
        => <<parsePc, parsed>> = SequentialResult

\* A parallel call over two spans, the second parsed first, that returned
\* both documents.
C17_OutOfOrderReturned ==
    /\ ParsedSubmissionReturned /\ opts.parallel
    /\ Len(Unwrap(parsed).documents) = 2
    /\ Unwrap(parsed).documents[1] # Unwrap(parsed).documents[2]


(***************************************************************************)
(* Specification SpecJson: the metadata of one submission serialized by    *)
(* two runs, serde_json::to_vec(&result.metadata) of parse_sgml_to_json    *)
(***************************************************************************)

\* The keys of the maps of the serialized metadata.
JsonKeys == {K_note, K_type, K_filename, K_sequence}

\* The iteration orders a HashMap of these keys can have: its hasher is
\* seeded per map, so every order of the keys is possible.
JsonOrders ==
    {o \in [1..Cardinality(JsonKeys) -> JsonKeys] :
        \A i, j \in 1..Cardinality(JsonKeys) : o[i] = o[j] => i = j}

\* The metadata of the submissions: the header fields and the documents of
\* the tar writer's inputs, unfiltered.
JsonMetadatas ==
    {[fields |-> hf,
      documents |-> [i \in 1..Len(ds) |->
                        [fields |-> ds[i].fields,
                         size_bytes |-> RunLen(ds[i].payload),
                         start_byte |-> None,
                         end_byte |-> None]]] :
        hf \in TarHeaderFields, ds \in SeqsUpTo(TarDocs, MaxTarDocs)}

JsonInit ==
    /\ callArgs \in [fn : {"parse_sgml_to_json"}, metadata : JsonMetadatas]
    /\ callRet = None
    /\ callPc = "in"
    /\ KeyIdle /\ UuIdle /\ TreeIdle /\ ParseIdle /\ TarIdle

\* The first run serializes the metadata, its maps iterating in some order.
SerializeOnce ==
    /\ callPc = "in"
    /\ callArgs.fn = "parse_sgml_to_json"
    /\ \E o \in JsonOrders : callRet' = Some(<<MetadataJson(callArgs.metadata, o)>>)
    /\ callPc' = "once"
    /\ UNCHANGED <<callArgs, notCall>>

\* The second run builds equal maps and serializes them in their order.
SerializeAgain ==
    /\ callPc = "once"
    /\ callArgs.fn = "parse_sgml_to_json"
    /\ \E o \in JsonOrders :
          callRet' = Some(Append(Unwrap(callRet), MetadataJson(callArgs.metadata, o)))
    /\ callPc' = "twice"
    /\ UNCHANGED <<callArgs, notCall>>

JsonNext == SerializeOnce \/ SerializeAgain

SpecJson == JsonInit /\ [][JsonNext]_vars

\* C16: two serializations of equal metadata maps are byte-identical,
\* whatever the iteration order of the maps.
C16_StableJson ==
    callPc = "twice" => Unwrap(callRet)[1] = Unwrap(callRet)[2]

\* C16 for metadata none of whose maps has two keys: there the two
\* serializations are equal.
C16_SingleKeyMaps ==
    (/\ callPc = "twice"
     /\ \A i \in 1..Len(callArgs.metadata.documents) :
           Cardinality(DOMAIN callArgs.metadata.documents[i].fields) <= 1)
        => Unwrap(callRet)[1] = Unwrap(callRet)[2]


(***************************************************************************)
(* Claims about the members of the archive, read back from its bytes       *)
(***************************************************************************)

\* The byte of the archive at offset p, NUL past its end.
ByteAtOrNul(a, p) == IF ULt(p, ArchiveLen(a)) THEN ByteAt(a, p) ELSE 0

\* The len bytes of the header at offset p that start at its byte at:
\* taken from the written run that holds them all, else byte by byte.
HeaderField(a, p, at, len) ==
    LET s == UAdd(p, U(at))
        holding == {k \in 1..Len(a) :
                      /\ ULe(OffsetOf(a, k), s)
                      /\ ULe(UAdd(s, U(len)), UAdd(OffsetOf(a, k), U(Len(a[k].pre))))}
        k == CHOOSE j \in holding : TRUE
        rel == USub(s, OffsetOf(a, k))[2]
    IN  IF holding # {} THEN SubSeq(a[k].pre, rel + 1, rel + len)
        ELSE [j \in 1..len |-> ByteAtOrNul(a, UAdd(s, U(j - 1)))]

\* A NUL-terminated string: the bytes before the first NUL.
UntilNul(b) ==
    LET nuls == {j \in 1..Len(b) : b[j] = 0}
    IN  IF nuls = {} THEN b ELSE SubSeq(b, 1, Least(nuls) - 1)

RECURSIVE ParseOctal(_)
\* The usize written by octal digits.
ParseOctal(str) ==
    IF str = <<>> THEN U(0)
    ELSE LET front == ParseOctal(SubSeq(str, 1, Len(str) - 1))
             twice == UAdd(front, front)
             four == UAdd(twice, twice)
         IN  UAdd(UAdd(four, four), U(str[Len(str)] - 48))

\* The member whose header is at offset p, as a tar reader takes it: its
\* name, its size, and the offset of the next header, after the content
\* and (-size) mod 512 bytes of padding.
MemberAt(a, p) ==
    LET sizeField == HeaderField(a, p, 124, 11)
        wellFormed == \A j \in 1..11 : sizeField[j] \in 48..55
        size == IF wellFormed THEN ParseOctal(sizeField) ELSE U(0)
        content == UAdd(p, U(BLOCK_SIZE))
    IN  [header |-> p,
         wellFormed |-> wellFormed /\ HeaderField(a, p, 135, 1) = <<0>>,
         name |-> UntilNul(HeaderField(a, p, 0, 100)),
         size |-> size,
         content |-> content,
         padding |-> PadTo512(size),
         next |-> UAdd(UAdd(content, size), U(PadTo512(size)))]

RECURSIVE ReadMembers(_, _, _)
\* The n members read from offset p on.
ReadMembers(a, p, n) ==
    IF n = 0 THEN <<>>
    ELSE LET m == MemberAt(a, p)
         IN  <<m>> \o ReadMembers(a, m.next, n - 1)

\* The members of the finished archive: metadata.json and the payloads.
Members == ReadMembers(archive, U(0), 1 + Len(submission.documents))

\* The field of a document's metadata whose key is the given name,
\* standardized (lowercase) or raw (uppercase): None or Some(its value).
FieldNamed(docMeta, name) ==
    LET ks == {k \in DOMAIN docMeta.fields : EqIgnoreAsciiCase(k, name)}
    IN  IF ks = {} THEN None ELSE Some(docMeta.fields[CHOOSE k \in ks : TRUE])

\* The name the statement gives payload member i.
StatedMemberName(docMeta, i) ==
    IF IsSome(FieldNamed(docMeta, K_filename)) THEN Unwrap(FieldNamed(docMeta, K_filename))
    ELSE IF IsSome(FieldNamed(docMeta, K_sequence))
    THEN Unwrap(FieldNamed(docMeta, K_sequence)) \o B_dot_txt
    ELSE Digits(i, 10) \o B_dot_txt

\* C18: the first member of the archive is named metadata.json, and payload
\* member i is named after its document's filename field when it has one,
\* else <sequence>.txt when it has a sequence field, else <i>.txt, for
\* submissions parsed with standardized keys and with raw keys.
C18_MemberNames ==
    tarPc = "done" =>
        \A m \in {Members} :
            /\ m[1].name = B_metadata_json
            /\ \A i \in 1..Len(submission.documents) :
                  m[i + 1].name = StatedMemberName(tarMetadata.documents[i], i)

\* C18 for the submissions whose documents have standardized keys.
C18_StandardizedKeys ==
    (/\ tarPc = "done"
     /\ \A i \in 1..Len(tarMetadata.documents) :
           \A k \in DOMAIN tarMetadata.documents[i].fields : k = [j \in 1..Len(k) |-> ToAsciiLowercase(k[j])])
        => \A m \in {Members} :
               /\ m[1].name = B_metadata_json
               /\ \A i \in 1..Len(submission.documents) :
                     m[i + 1].name = StatedMemberName(tarMetadata.documents[i], i)

\* An archive with a member named after a filename field, one named after
\* a sequence field, or one named after its number.
C18_NamedByFilename ==
    /\ tarPc = "done" /\ Len(submission.documents) = 2
    /\ \E m \in {Members} :
          m[2].name = <<97,46,104,116,109>> /\ m[3].name = <<50>> \o B_dot_txt
C18_NamedByNumber ==
    /\ tarPc = "done" /\ Len(submission.documents) = 2
    /\ Members[3].name = <<50>> \o B_dot_txt
    /\ FieldNamed(tarMetadata.documents[2], K_sequence) = None

\* The bytes of the archive from s to e are all NUL.
AllNul(a, s, e) == SliceEquals(a, s, e, Repeat(0, USub(e, s)))

\* C20: the finished archive is a sequence of members, each a 512-byte
\* header, the content, and (-size) mod 512 NUL bytes (0..511, none after a
\* multiple of 512), followed by two 512-byte NUL blocks and nothing else;
\* every header and content starts at a multiple of 512 and so does the end
\* of the archive.
C20_ArchiveLayout ==
    tarPc = "done" =>
        \A m \in {Members} :
            LET n == 1 + Len(submission.documents)
                end == m[n].next
            IN  /\ \A k \in 1..n :
                      /\ m[k].wellFormed
                      /\ UMod(m[k].header, 512) = 0
                      /\ UMod(m[k].content, 512) = 0
                      /\ m[k].padding \in 0..511
                      /\ (UMod(m[k].size, 512) = 0 => m[k].padding = 0)
                      /\ AllNul(archive, UAdd(m[k].content, m[k].size), m[k].next)
                      /\ k > 1 => /\ m[k].size = RunLen(submission.documents[k - 1])
                                  /\ SliceEquals(archive, m[k].content,
                                                 UAdd(m[k].content, m[k].size),
                                                 submission.documents[k - 1])
                /\ m[1].size = U(Len(MetadataJson(tarMetadata, hashOrder)))
                /\ AllNul(archive, end, UAdd(end, U(2 * BLOCK_SIZE)))
                /\ ArchiveLen(archive) = UAdd(end, U(2 * BLOCK_SIZE))
                /\ UMod(ArchiveLen(archive), 512) = 0

\* A finished archive with a payload of a whole block, written without
\* padding, and a payload of three bytes, written with 509 bytes of it.
C20_Witness ==
    /\ tarPc = "done" /\ Len(submission.documents) = 2
    /\ \E m \in {Members} :
          /\ m[2].size = U(BLOCK_SIZE) /\ m[2].padding = 0
          /\ m[3].size = U(3) /\ m[3].padding = 509
          /\ m[3].header = UAdd(m[2].header, U(2 * BLOCK_SIZE))

(***************************************************************************)
(* SpecBegin: is_uuencoded on contents put together from the pieces of a   *)
(* begin line                                                              *)
(***************************************************************************)

MaxBeginPieces == 5

B_644 == <<54,52,52>>  \* "644"
B_sp_f == <<32,102>>  \* " f"
B_x_lf == <<120,10>>  \* "x\n"

BeginPieces == {B_begin_sp, B_644, <<54>>, B_sp_f, <<10>>, <<32>>, B_x_lf}

BeginContents == {Concat(ps) : ps \in SeqsUpTo(BeginPieces, MaxBeginPieces)}

BeginInit ==
    /\ callArgs \in [fn : {"is_uuencoded"}, content : BeginContents]
    /\ callRet = None
    /\ callPc = "in"
    /\ KeyIdle /\ UuIdle /\ TreeIdle /\ ParseIdle /\ TarIdle

IsUuencodedCall ==
    /\ callPc = "in"
    /\ callArgs.fn = "is_uuencoded"
    /\ callRet' = Some(IsUuencoded(callArgs.content))
    /\ callPc' = "returned"
    /\ UNCHANGED <<callArgs, notCall>>

BeginNext == IsUuencodedCall

SpecBegin == BeginInit /\ [][BeginNext]_vars

\* The line of data that starts at the 0-based index from: the bytes up to
\* the next LF, or to the end of the data.
LineFrom(data, from) ==
    LET nl == IndexOfByte(data, 10, from)
    IN  IF nl >= 0 THEN Slice(data, from, nl) ELSE SliceFrom(data, from)

\* The first two lines of the content after its leading whitespace.
FirstTwoLines(content) ==
    LET c == TrimStart(content)
        nl == IndexOfByte(c, 10, 0)
    IN  <<LineFrom(c, 0)>> \o (IF nl >= 0 THEN <<LineFrom(c, nl + 1)>> ELSE <<>>)

\* The line matches begin DDD f...: "begin ", exactly three ASCII digits,
\* and at least one filename character following on the line.
MatchesBeginLine(line) ==
    /\ StartsWith(line, B_begin_sp)
    /\ Len(line) >= 11
    /\ \A i \in 7..9 : IsAsciiDigit(line[i])
    /\ ~IsAsciiDigit(line[10])

\* C19: is_uuencoded(content) is true if and only if the first or the
\* second line of the content, after its leading ASCII whitespace, matches
\* begin DDD f...
C19_BeginLineDetected ==
    (callPc = "returned" /\ callArgs.fn = "is_uuencoded")
        => (Unwrap(callRet) <=>
              \E i \in 1..Len(FirstTwoLines(callArgs.content)) :
                  MatchesBeginLine(FirstTwoLines(callArgs.content)[i]))

\* C19 for contents whose begin lines hold eleven bytes or more and a mode
\* of three digits: there the result is as stated.
C19_OnWholeLines ==
    (/\ callPc = "returned" /\ callArgs.fn = "is_uuencoded"
     /\ \A i \in 1..Len(FirstTwoLines(callArgs.content)) :
           LET line == FirstTwoLines(callArgs.content)[i]
           IN  StartsWith(line, B_begin_sp) => Len(line) >= 11 /\ ~IsAsciiDigit(line[10]))
        => (Unwrap(callRet) <=>
              \E i \in 1..Len(FirstTwoLines(callArgs.content)) :
                  MatchesBeginLine(FirstTwoLines(callArgs.content)[i]))

\* The begin line is the second line of the content and the call returned
\* true.
C19_SecondLineDetected ==
    /\ callPc = "returned" /\ callArgs.fn = "is_uuencoded"
    /\ Len(FirstTwoLines(callArgs.content)) = 2
    /\ ~MatchesBeginLine(FirstTwoLines(callArgs.content)[1])
    /\ MatchesBeginLine(FirstTwoLines(callArgs.content)[2])
    /\ Unwrap(callRet)

\* A begin line on the third line only: the call returned false.
C19_ThirdLineIgnored ==
    /\ callPc = "returned" /\ callArgs.fn = "is_uuencoded"
    /\ callArgs.content = B_x_lf \o B_x_lf \o B_begin_sp \o B_644 \o B_sp_f
    /\ ~Unwrap(callRet)

(***************************************************************************)
(* SpecHeader: one call build_tar_header(filename, size)                   *)
(***************************************************************************)

MaxNameLen == 150

\* The file names: of 0 to MaxNameLen bytes, and one whose byte 100 is the
\* first byte of a two-byte character.
HeaderNames ==
    {LineOf(n, 97) : n \in {0, 1, 8, 99, 100, 101, MaxNameLen}}
        \cup {LineOf(99, 97) \o <<233>>, <<116,101,115,116,46,116,120,116>>}

\* The sizes: below and from 8^11 = 8589934592 on.
HeaderSizes ==
    {U(n) : n \in {0, 1, 7, 8, 100, 511, 512, 513}}
        \cup {<<5, 0>>, <<8, 589934591>>, <<8, 589934592>>, <<10, 0>>}

HeaderInit ==
    /\ callArgs \in [fn : {"build_tar_header"}, filename : HeaderNames, size : HeaderSizes]
    /\ callRet = None
    /\ callPc = "in"
    /\ KeyIdle /\ UuIdle /\ TreeIdle /\ ParseIdle /\ TarIdle

\* build_tar_header returns the header, or panics in copy_from_slice.
BuildTarHeaderCall ==
    /\ callPc = "in"
    /\ callArgs.fn = "build_tar_header"
    /\ callRet' = BuildTarHeader(callArgs.filename, callArgs.size)
    /\ callPc' = IF IsSome(callRet') THEN "returned" ELSE "panicked"
    /\ UNCHANGED <<callArgs, notCall>>

HeaderNext == BuildTarHeaderCall

SpecHeader == HeaderInit /\ [][HeaderNext]_vars

\* The header is as the statement describes it for the name and the size.
HeaderAsStated(h, filename, size) ==
    LET nameBytes == StringBytes(filename)
        kept == IF Len(nameBytes) < 100 THEN Len(nameBytes) ELSE 100
        sum == SumRange(h, 1, 148) + (8 * 32) + SumRange(h, 157, BLOCK_SIZE)
    IN  /\ Len(h) = BLOCK_SIZE
        /\ SubSeq(h, 1, kept) = SubSeq(nameBytes, 1, kept)
        /\ \A j \in (kept + 1)..100 : h[j] = 0
        /\ \A j \in 125..135 : h[j] \in 48..55
        /\ ParseOctal(SubSeq(h, 125, 135)) = size
        /\ h[136] = 0
        /\ h[157] = 48
        /\ SubSeq(h, 258, 262) = <<117,115,116,97,114>>
        /\ SubSeq(h, 149, 154) = ZeroPad(Digits(sum, 8), 6)

\* C21: for every file name and content size build_tar_header returns a
\* 512-byte block with the name truncated to 100 bytes, the size as 11
\* octal digits and NUL, the typeflag '0', the magic "ustar" and the
\* 6-digit octal checksum of the header with the checksum field as spaces.
C21_TarHeader ==
    (callPc \in {"returned", "panicked"} /\ callArgs.fn = "build_tar_header")
        => /\ callPc = "returned"
           /\ HeaderAsStated(Unwrap(callRet), callArgs.filename, callArgs.size)

\* C21 where the call returns: the header is as stated.
C21_WhereItReturns ==
    (callPc = "returned" /\ callArgs.fn = "build_tar_header")
        => HeaderAsStated(Unwrap(callRet), callArgs.filename, callArgs.size)

\* A name of more than 100 bytes was truncated in a returned header.
C21_Truncated ==
    /\ callPc = "returned" /\ callArgs.fn = "build_tar_header"
    /\ Len(StringBytes(callArgs.filename)) > 100
    /\ SubSeq(Unwrap(callRet), 1, 100) = SubSeq(StringBytes(callArgs.filename), 1, 100)
    /\ SubSeq(Unwrap(callRet), 101, 107) = B_0000644

\* The call panicked on a size of 8^11 bytes or more.
C21_Panicked ==
    /\ callPc = "panicked" /\ callArgs.fn = "build_tar_header"
    /\ ~ULt(callArgs.size, <<8, 589934592>>)

(***************************************************************************)
(* SpecMeta: one call parse_document_metadata(data, standardize)           *)
(***************************************************************************)

MaxMetaLines == 3

ML_TYPE == <<60,84,89,80,69,62,49,48,45,75>>  \* "<TYPE>10-K"
ML_TYPE_AGAIN == <<32,32,60,84,89,80,69,62,32,32,69,88,45,57,57,32,13>>  \* "  <TYPE>  EX-99 \r"
ML_type == <<60,116,121,112,101,62,56,45,75>>  \* "<type>8-K"
ML_FILENAME == <<9,60,70,73,76,69,78,65,77,69,62,97,46,104,116,109>>  \* "\t<FILENAME>a.htm"
ML_SEC_ACT == <<60,83,69,67,32,65,67,84,62,49,57,51,52,32,65,99,116>>  \* "<SEC ACT>1934 Act"
ML_GT == <<60,65,62,98,62,99,32,100>>  \* "<A>b>c d"
ML_NO_GT == <<60,68,69,83,67,82,73,80,84,73,79,78>>  \* "<DESCRIPTION"
ML_TEXT == <<112,108,97,105,110,32,116,101,120,116>>  \* "plain text"
ML_EMPTY == <<>>  \* ""
\* "<SEC ACT>" and the three bytes of U+20AC before " Act"
ML_SEC_ACT_EURO == <<60,83,69,67,32,65,67,84,62,226,130,172,32,65,99,116>>
\* "<NOTE>" and the byte 0xE9, not UTF-8
ML_LATIN == <<60,78,79,84,69,62,233>>

MetaLines ==
    {ML_TYPE, ML_TYPE_AGAIN, ML_type, ML_FILENAME,
     ML_SEC_ACT, ML_GT, ML_NO_GT, ML_TEXT,
     ML_EMPTY, ML_SEC_ACT_EURO, ML_LATIN}

\* The metadata blocks: up to MaxMetaLines lines, LF after each but the last.
MetaBlocks == {Join(ls, <<10>>) : ls \in SeqsUpTo(MetaLines, MaxMetaLines)}

MetaInit ==
    /\ callArgs \in [fn : {"parse_document_metadata"}, data : MetaBlocks,
                     standardize : BOOLEAN]
    /\ callRet = None
    /\ callPc = "in"
    /\ KeyIdle /\ UuIdle /\ TreeIdle /\ ParseIdle /\ TarIdle

\* parse_document_metadata returns the fields, or panics in transform_value.
ParseDocumentMetadataCall ==
    /\ callPc = "in"
    /\ callArgs.fn = "parse_document_metadata"
    /\ IF MetadataPanics(SplitOn(callArgs.data, 10), callArgs.standardize)
       THEN callRet' = None /\ callPc' = "panicked"
       ELSE /\ callRet' = Some(ParseDocumentMetadata(callArgs.data,
                                                     callArgs.standardize).fields)
            /\ callPc' = "returned"
    /\ UNCHANGED <<callArgs, notCall>>

MetaNext == ParseDocumentMetadataCall

SpecMeta == MetaInit /\ [][MetaNext]_vars

\* The lines of the block that have the form <KEY>value, by their index.
TagLines(data) ==
    LET lines == SplitOn(data, 10)
    IN  {i \in 1..Len(lines) :
           LET line == Trim(lines[i])
           IN  StartsWith(line, <<60>>) /\ \E j \in 1..Len(line) : line[j] = 62}

\* The key of tag line i: the bytes between '<' and the first '>'.
TagKey(data, i) ==
    LET line == Trim(SplitOn(data, 10)[i])
        gt == Least({j \in 1..Len(line) : line[j] = 62})
    IN  BytesToString(SubSeq(line, 2, gt - 1))

\* The value of tag line i: the trimmed bytes after the first '>'.
TagValue(data, i) ==
    LET line == Trim(SplitOn(data, 10)[i])
        gt == Least({j \in 1..Len(line) : line[j] = 62})
    IN  BytesToString(Trim(SubSeq(line, gt + 1, Len(line))))

\* The key under which tag line i is stored.
StoredKey(data, standardize, i) ==
    IF standardize THEN StandardizeKey(TagKey(data, i)) ELSE TagKey(data, i)

\* The map the statement describes: one entry per stored key, holding the
\* value of the last line stored under it.
StatedFields(data, standardize) ==
    LET keys == {StoredKey(data, standardize, i) : i \in TagLines(data)}
    IN  [k \in keys |->
            LET of == {i \in TagLines(data) : StoredKey(data, standardize, i) = k}
                last == CHOOSE i \in of : \A j \in of : j <= i
            IN  IF standardize
                THEN TransformValue(TagKey(data, last), TagValue(data, last))
                ELSE TagValue(data, last)]

\* C22: the document metadata block is parsed line by line into a flat map
\* from strings to strings: a line <KEY>value gives the key between '<' and
\* the first '>' and the trimmed value after it, standardized and
\* transformed when standardization is on and raw when it is off, and a
\* key that occurs on several lines holds the value of the last of them.
C22_DocumentMetadata ==
    (callPc \in {"returned", "panicked"} /\ callArgs.fn = "parse_document_metadata")
        => /\ callPc = "returned"
           /\ Unwrap(callRet) = StatedFields(callArgs.data, callArgs.standardize)

\* C22 where the call returns: the map is as stated.
C22_WhereItReturns ==
    (callPc = "returned" /\ callArgs.fn = "parse_document_metadata")
        => Unwrap(callRet) = StatedFields(callArgs.data, callArgs.standardize)

\* A key on two lines holds the value of the later line, and a raw key and
\* its lowercase spelling are one entry once standardized.
C22_LastLineWins ==
    /\ callPc = "returned" /\ callArgs.fn = "parse_document_metadata"
    /\ callArgs.data = Join(<<ML_TYPE, ML_type, ML_TYPE_AGAIN>>, <<10>>)
    /\ callArgs.standardize
    /\ Unwrap(callRet) = MapInsert(EmptyMap, K_type, V_EX_99)

\* The call panicked with standardization on.
C22_Panicked ==
    /\ callPc = "panicked" /\ callArgs.fn = "parse_document_metadata"
    /\ callArgs.standardize

(***************************************************************************)
(* SpecLine: one call decode_uu_line(line) on a data line that holds the   *)
(* count character, the characters its bytes need, and trailing characters *)
(***************************************************************************)

MaxLineBytes == 4

\* The bytes of the encoded lines: 1, 'C', 'a', 't'.
LineAlphabet == {1, 67, 97, 116}

\* What follows the needed characters: nothing, " ", "X", "x", "`", "  ",
\* " X", "XY", "xX".
LineTrailers ==
    {<<>>, <<32>>, <<88>>, <<120>>, <<96>>, <<32,32>>, <<32,88>>, <<88,89>>, <<120,88>>}

\* The number of characters that n bytes need: the ceiling of 4n/3.
CharsNeeded(n) == (4 * n + 2) \div 3

\* The count character of the bytes and the characters they need.
MinimalLine(bytes) ==
    <<32 + Len(bytes)>> \o SubSeq(UuEncGroups(bytes, 1), 1, CharsNeeded(Len(bytes)))

LineInit ==
    /\ callArgs \in [fn : {"decode_uu_line"},
                     bytes : SeqsUpTo(LineAlphabet, MaxLineBytes),
                     trailing : LineTrailers]
    /\ callRet = None
    /\ callPc = "in"
    /\ KeyIdle /\ UuIdle /\ TreeIdle /\ ParseIdle /\ TarIdle

\* The line handed to decode_uu_line.
LineGiven == MinimalLine(callArgs.bytes) \o callArgs.trailing

DecodeUuLineCall ==
    /\ callPc = "in"
    /\ callArgs.fn = "decode_uu_line"
    /\ callRet' = Some(DecodeUuLine(LineGiven))
    /\ callPc' = "returned"
    /\ UNCHANGED <<callArgs, notCall>>

LineNext == DecodeUuLineCall

SpecLine == LineInit /\ [][LineNext]_vars

\* What the line adds to the output of decode_uuencoded: the decoded bytes,
\* nothing when decode_uu_line returns None.
Contributed == IF IsSome(Unwrap(callRet)) THEN Unwrap(Unwrap(callRet)) ELSE <<>>

\* C23: a data line whose count character encodes n bytes contributes
\* exactly its n decoded bytes, whatever characters trail the ceil(4n/3)
\* it needs: the line is neither rejected nor dropped.
C23_TrailingTolerated ==
    (callPc = "returned" /\ callArgs.fn = "decode_uu_line")
        => Contributed = callArgs.bytes

\* C23 for lines without a backtick among the needed characters and whose
\* first trailing character from 32 to 95, if any, is a space: these
\* contribute their n bytes.
C23_BlankAfterNeeded ==
    (/\ callPc = "returned" /\ callArgs.fn = "decode_uu_line"
     /\ \A i \in 1..Len(MinimalLine(callArgs.bytes)) : MinimalLine(callArgs.bytes)[i] # 96
     /\ LET kept == CleanLine(callArgs.trailing, 95)
        IN  kept = <<>> \/ kept[1] = 32)
        => Contributed = callArgs.bytes

\* A line with trailing characters was decoded to its bytes.
C23_TrailingIgnored ==
    /\ callPc = "returned" /\ callArgs.fn = "decode_uu_line"
    /\ callArgs.bytes = B_Cat
    /\ callArgs.trailing = <<32,88>>
    /\ Unwrap(callRet) = Some(B_Cat)

\* A line with a trailing 'X' was dropped.
C23_Dropped ==
    /\ callPc = "returned" /\ callArgs.fn = "decode_uu_line"
    /\ callArgs.bytes = B_Cat
    /\ callArgs.trailing = <<88>>
    /\ Unwrap(callRet) = None

(***************************************************************************)
(* SpecStream: one call decode_uuencoded(content) on a stream of lines     *)
(***************************************************************************)

MaxStreamLines == 4

B_begin_644_f == <<98,101,103,105,110,32,54,52,52,32,102>>  \* "begin 644 f"
L_Cat == <<35,48,86,37,84>>  \* "#0V%T": the three bytes "Cat"
L_1_CR == <<33,44,48,13>>  \* "!,0\r": the byte '1', before CR LF
L_zero == <<32>>  \* " ": a line of count 0
L_sentinel == <<96>>  \* "`": the sentinel line of the standard encoder

\* The lines of the streams, a blank line and a line of one CR among them.
StreamLines == {B_begin_644_f, L_Cat, L_1_CR, L_zero, L_sentinel, B_end, <<>>, <<13>>}

\* The streams: up to MaxStreamLines lines, LF between them, and with or
\* without a last LF.
StreamContents ==
    {Join(ls, <<10>>) \o tail : ls \in SeqsUpTo(StreamLines, MaxStreamLines),
                               tail \in {<<>>, <<10>>}}

StreamInit ==
    /\ callArgs \in [fn : {"decode_uuencoded"}, content : StreamContents]
    /\ callRet = None
    /\ callPc = "in"
    /\ KeyIdle /\ UuIdle /\ TreeIdle /\ ParseIdle /\ TarIdle

DecodeUuencodedCall ==
    /\ callPc = "in"
    /\ callArgs.fn = "decode_uuencoded"
    /\ callRet' = Some(DecodeUuencoded(callArgs.content))
    /\ callPc' = "returned"
    /\ UNCHANGED <<callArgs, notCall>>

StreamNext == DecodeUuencodedCall

SpecStream == StreamInit /\ [][StreamNext]_vars

\* The lines of the content, each without its CRs at the end.
StreamOf(content) ==
    LET lines == Lines(content)
    IN  [j \in 1..Len(lines) |-> TrimEndMatches(lines[j], 13)]

\* The indices of the lines that start with "begin".
BeginLinesOf(stream) == {j \in 1..Len(stream) : StartsWith(stream[j], B_begin)}

\* The index of the line at which decoding stops: the first line after
\* line b that is blank or equal to "end", or the end of the input.
StopAfter(stream, b) ==
    Least({j \in (b + 1)..Len(stream) : stream[j] = <<>> \/ stream[j] = B_end}
              \cup {Len(stream) + 1})

\* The bytes a data line decodes to: none where decode_uu_line gives None.
BytesOfLine(line) ==
    LET d == DecodeUuLine(line) IN IF IsSome(d) THEN Unwrap(d) ELSE <<>>

\* The count of a data line: n = (c0 - 32) & 0x3F of its first character
\* from 32 to 95, 0 without one.
CountOf(line) ==
    LET kept == CleanLine(line, 95)
    IN  IF kept = <<>> THEN 0 ELSE (kept[1] - 32) % 64

\* What the stream decodes to: the bytes of the lines after the first begin
\* line and before the stop, in order.
StatedDecoding(content) ==
    LET stream == StreamOf(content)
        b == Least(BeginLinesOf(stream))
        stop == StopAfter(stream, b)
    IN  IF BeginLinesOf(stream) = {} THEN <<>>
        ELSE Concat([j \in 1..(stop - b - 1) |->
                        IF CountOf(stream[b + j]) = 0 THEN <<>>
                        ELSE BytesOfLine(stream[b + j])])

\* C24: decode_uuencoded decodes the lines after the first begin line in
\* order and stops at the first line equal to "end", at the first blank
\* line after CR-trim, or at the end of the input; nothing after that point
\* contributes, lines of count 0 contribute nothing, and a stream without
\* "end" yields the bytes of the lines present.
C24_DecodesUntilStop ==
    (callPc = "returned" /\ callArgs.fn = "decode_uuencoded")
        => Unwrap(callRet) = StatedDecoding(callArgs.content)

\* A stream with data lines after "end" gave the bytes before it.
C24_Witness ==
    /\ callPc = "returned" /\ callArgs.fn = "decode_uuencoded"
    /\ callArgs.content = Join(<<B_begin_644_f, L_Cat, B_end, L_Cat>>, <<10>>)
    /\ Unwrap(callRet) = B_Cat

\* A stream with a data line after a line of one CR gave the bytes before
\* that line.
C24_StoppedAtBlank ==
    /\ callPc = "returned" /\ callArgs.fn = "decode_uuencoded"
    /\ callArgs.content = Join(<<B_begin_644_f, L_1_CR, <<13>>, L_Cat>>, <<10>>)
    /\ Unwrap(callRet) = <<49>>

\* A stream without "end" gave the bytes of its lines, none for the line
\* of count 0.
C24_Truncated ==
    /\ callPc = "returned" /\ callArgs.fn = "decode_uuencoded"
    /\ callArgs.content = Join(<<B_begin_644_f, L_Cat, L_zero, L_1_CR>>, <<10>>)
    /\ Unwrap(callRet) = B_Cat \o <<49>>

(***************************************************************************)
(* SpecTabs: one call parse_tab_metadata(data, standardize) on header      *)
(* lines "FILER:" and "CITY:<tab>n" behind 0 to MaxTabIndent tabs          *)
(***************************************************************************)

MaxTabLines == 4

MaxTabIndent == 2

K_FILER == <<70,73,76,69,82>>  \* "FILER"
K_CITY == <<67,73,84,89>>  \* "CITY"

\* The lines as described: the indent and whether the line opens a section.
TabDescriptions == [indent : 0..MaxTabIndent, section : BOOLEAN]

\* The key of a described line.
TabKeyOf(l) == IF l.section THEN K_FILER ELSE K_CITY

\* The text of the n-th line: the tabs, the key and the colon, and for a
\* scalar a tab and the digit n as its value; LF ends the line.
TabTextOf(l, n) ==
    LineOf(l.indent, 9) \o TabKeyOf(l) \o <<58>>
        \o (IF l.section THEN <<>> ELSE <<9, 48 + n>>) \o <<10>>

\* The header of the described lines.
TabData(ls) == Concat([n \in 1..Len(ls) |-> TabTextOf(ls[n], n)])

TabsInit ==
    /\ \E ls \in SeqsUpTo(TabDescriptions, MaxTabLines), s \in BOOLEAN :
          callArgs = [fn |-> "parse_tab_metadata", lines |-> ls,
                      data |-> TabData(ls), standardize |-> s]
    /\ callRet = None
    /\ callPc = "in"
    /\ KeyIdle /\ UuIdle /\ TreeIdle /\ ParseIdle /\ TarIdle

ParseTabMetadataCall ==
    /\ callPc = "in"
    /\ callArgs.fn = "parse_tab_metadata"
    /\ callRet' = Some(ParseTabMetadata(callArgs.data, callArgs.standardize))
    /\ callPc' = "returned"
    /\ UNCHANGED <<callArgs, notCall>>

TabsNext == ParseTabMetadataCall

SpecTabs == TabsInit /\ [][TabsNext]_vars

\* The sections of indent e that are open at line i: opened by a line
\* before i, with no line of indent e or less since.
OpenSections(ls, i, e) ==
    {j \in 1..(i - 1) :
        /\ ls[j].section /\ ls[j].indent = e
        /\ \A k \in (j + 1)..(i - 1) : ls[k].indent > e}

\* The key a line is stored under.
TabStoredKey(l, standardize) ==
    IF standardize THEN StandardizeKey(TabKeyOf(l)) ELSE TabKeyOf(l)

\* Where the statement puts line i, of indent d: inside the most recently
\* opened sections of the indents 0..d-1, the outermost first.
StatedTabPath(ls, i, standardize) ==
    LET levels == {e \in 0..(ls[i].indent - 1) : OpenSections(ls, i, e) # {}}
        level(n) == CHOOSE e \in levels : Cardinality({x \in levels : x < e}) = n - 1
        opened(e) == CHOOSE j \in OpenSections(ls, i, e) :
                         \A k \in OpenSections(ls, i, e) : k <= j
    IN  [n \in 1..Cardinality(levels) |-> TabStoredKey(ls[opened(level(n))], standardize)]

\* The value a line inserts: an empty object for a section, its digit for
\* a scalar.
TabStoredValue(l, n, standardize) ==
    IF l.section THEN MvObject(EmptyMap)
    ELSE MvString(IF standardize THEN TransformValue(K_CITY, <<48 + n>>) ELSE <<48 + n>>)

RECURSIVE StatedTabTree(_, _, _, _)
\* The tree of the lines from i on, each inserted where the statement puts
\* it.
StatedTabTree(ls, i, standardize, r) ==
    IF i > Len(ls) THEN r
    ELSE StatedTabTree(ls, i + 1, standardize,
                       InsertAtPath(r, StatedTabPath(ls, i, standardize),
                                    TabStoredKey(ls[i], standardize),
                                    TabStoredValue(ls[i], i, standardize)))

\* Every line is indented by no more tabs than there are sections open
\* around it: every indent 0..d-1 of a line of indent d has an open section.
NestedByOne(ls) ==
    \A i \in 1..Len(ls) : \A e \in 0..(ls[i].indent - 1) : OpenSections(ls, i, e) # {}

\* C25: in the tab-dialect header the path is truncated to the line's count
\* of leading tabs, a "KEY:" line inserts an empty object at the path and
\* pushes its key, a "KEY: value" line inserts a scalar at the path; so an
\* entry at indent d lands inside the most recently opened sections of the
\* indents 0..d-1, and a shallower indent pops the deeper sections.
C25_LandsInOpenSections ==
    (callPc = "returned" /\ callArgs.fn = "parse_tab_metadata")
        => Unwrap(callRet) = StatedTabTree(callArgs.lines, 1, callArgs.standardize, EmptyMap)

\* C25 for headers whose lines are indented one tab per open section: the
\* entries land as stated.
C25_NestedByOne ==
    (/\ callPc = "returned" /\ callArgs.fn = "parse_tab_metadata"
     /\ NestedByOne(callArgs.lines))
        => Unwrap(callRet) = StatedTabTree(callArgs.lines, 1, callArgs.standardize, EmptyMap)

\* A section inside a section, a scalar inside both, and a scalar at indent
\* 0 after them: the last line landed at the root.
C25_Popped ==
    /\ callPc = "returned" /\ callArgs.fn = "parse_tab_metadata"
    /\ callArgs.standardize
    /\ callArgs.lines = <<[indent |-> 0, section |-> TRUE], [indent |-> 1, section |-> TRUE],
                          [indent |-> 2, section |-> FALSE], [indent |-> 0, section |-> FALSE]>>
    /\ Unwrap(callRet) =
          MapInsert(MapInsert(EmptyMap, K_city, MvString(<<52>>)), K_filer,
                    MvObject(MapInsert(EmptyMap, K_filer,
                                       MvObject(MapInsert(EmptyMap, K_city, MvString(<<51>>))))))

(***************************************************************************)
(* SpecArchive: parse_archive_metadata, the pairs of the header walked one *)
(* by one with the root and the path stack                                 *)
(***************************************************************************)

MaxArchiveLines == 4

A_SUBMISSION == <<60,83,85,66,77,73,83,83,73,79,78,62>>  \* "<SUBMISSION>"
A_SUBMISSION_end == <<60,47,83,85,66,77,73,83,83,73,79,78,62>>  \* "</SUBMISSION>"
A_FILER == <<60,70,73,76,69,82,62>>  \* "<FILER>"
A_FILER_end == <<60,47,70,73,76,69,82,62>>  \* "</FILER>"
A_FILER_y == <<32,60,70,73,76,69,82,62,32,121,32>>  \* " <FILER> y "
A_CITY_x == <<60,67,73,84,89,62,120>>  \* "<CITY>x"
A_CITY == <<60,67,73,84,89,62>>  \* "<CITY>"

\* The lines between <SUBMISSION> and </SUBMISSION>.
ArchiveBodyLines == {A_FILER, A_FILER_end, A_FILER_y, A_CITY_x, A_CITY}

\* The header of the body lines, inside the SUBMISSION tags or bare; LF
\* ends every line.
ArchiveData(body, wrapped) ==
    LET ls == IF wrapped THEN <<A_SUBMISSION>> \o body \o <<A_SUBMISSION_end>> ELSE body
    IN  Concat([i \in 1..Len(ls) |-> ls[i] \o <<10>>])

ArchiveInit ==
    /\ \E body \in SeqsUpTo(ArchiveBodyLines, MaxArchiveLines), w \in BOOLEAN, s \in BOOLEAN :
          callArgs = [fn |-> "parse_archive_metadata", data |-> ArchiveData(body, w),
                      standardize |-> s]
    /\ callRet = None
    /\ callPc = "in"
    /\ root = EmptyMap
    /\ path = <<>>
    /\ rootHist = <<>>
    /\ lineNo = 0
    /\ treePc = "tags"
    /\ KeyIdle /\ UuIdle /\ ParseIdle /\ TarIdle

\* The pairs of the first pass.
Keyvals == ParseArchiveKeyvals(callArgs.data)

\* One turn of the second pass: the next pair is walked.
ArchiveWalkTag ==
    /\ treePc = "tags"
    /\ callArgs.fn = "parse_archive_metadata"
    /\ lineNo < Len(Keyvals)
    /\ LET next == ArchiveTag(Keyvals[lineNo + 1], SectionTags(Keyvals),
                              callArgs.standardize, root, path)
       IN  root' = next[1] /\ path' = next[2]
    /\ lineNo' = lineNo + 1
    /\ UNCHANGED <<rootHist, treePc, callVars, keyVars, uuVars, parseVars, tarVars>>

\* After the last pair the root is returned.
ArchiveReturn ==
    /\ treePc = "tags"
    /\ callArgs.fn = "parse_archive_metadata"
    /\ lineNo = Len(Keyvals)
    /\ callRet' = Some(root)
    /\ callPc' = "returned"
    /\ treePc' = "done"
    /\ UNCHANGED <<root, path, rootHist, lineNo, callArgs, keyVars, uuVars, parseVars, tarVars>>

ArchiveNext == ArchiveWalkTag \/ ArchiveReturn

SpecArchive == ArchiveInit /\ [][ArchiveNext]_vars

\* Pair j is a closing tag.
IsClosing(kv, j) == kv[j][1] # <<>> /\ kv[j][1][1] = 47

\* The keys that appear as closing tags.
ClosedKeys(kv) == {SubSeq(kv[j][1], 2, Len(kv[j][1])) : j \in {x \in 1..Len(kv) : IsClosing(kv, x)}}

\* Pair j opens a section: an opening tag other than SUBMISSION with an
\* empty value whose key appears as a closing tag.
OpensSection(kv, j) ==
    /\ ~IsClosing(kv, j)
    /\ kv[j][1] # B_SUBMISSION
    /\ kv[j][2] = <<>>
    /\ kv[j][1] \in ClosedKeys(kv)

\* The sections open after the first n pairs: opened by a pair j and not
\* popped, no stretch after j holding more closing tags than openings.
OpenAfter(kv, n) ==
    {j \in 1..n :
        /\ OpensSection(kv, j)
        /\ \A k \in (j + 1)..n :
              Cardinality({x \in (j + 1)..k : IsClosing(kv, x)})
                  <= Cardinality({x \in (j + 1)..k : OpensSection(kv, x)})}

\* The key a pair is stored under.
ArchiveStoredKey(kv, j, standardize) ==
    IF standardize THEN StandardizeKey(BytesToString(kv[j][1])) ELSE BytesToString(kv[j][1])

\* The path stack after the first n pairs as the statement has it: the keys
\* of the open sections, the outermost first.
StatedStack(kv, n, standardize) ==
    LET open == OpenAfter(kv, n)
        nth(m) == CHOOSE j \in open : Cardinality({x \in open : x < j}) = m - 1
    IN  [m \in 1..Cardinality(open) |-> ArchiveStoredKey(kv, nth(m), standardize)]

\* What pair j inserts: a scalar, an empty object or an empty string.
ArchiveStoredValue(kv, j, standardize) ==
    IF kv[j][2] # <<>>
    THEN MvString(IF standardize
                  THEN TransformValue(BytesToString(kv[j][1]), BytesToString(kv[j][2]))
                  ELSE BytesToString(kv[j][2]))
    ELSE IF OpensSection(kv, j) THEN MvObject(EmptyMap)
    ELSE MvString(<<>>)

RECURSIVE StatedArchiveTree(_, _, _)
\* The tree after the first n pairs as the statement has it: every opening
\* tag other than SUBMISSION inserted at the stack of the pairs before it.
StatedArchiveTree(kv, n, standardize) ==
    IF n = 0 THEN EmptyMap
    ELSE LET before == StatedArchiveTree(kv, n - 1, standardize)
         IN  IF IsClosing(kv, n) \/ kv[n][1] = B_SUBMISSION THEN before
             ELSE InsertAtPath(before, StatedStack(kv, n - 1, standardize),
                               ArchiveStoredKey(kv, n, standardize),
                               ArchiveStoredValue(kv, n, standardize))

\* The tags other than SUBMISSION are nested: no stretch from the start
\* holds more closing tags than openings of closed keys, and the whole
\* holds as many of the one as of the other.
ProperlyNested(kv) ==
    LET body == {j \in 1..Len(kv) : kv[j][1] \notin {B_SUBMISSION, <<47>> \o B_SUBMISSION}}
        closes(n) == Cardinality({j \in body : j <= n /\ IsClosing(kv, j)})
        opens(n) == Cardinality({j \in body : j <= n /\ ~IsClosing(kv, j)
                                              /\ kv[j][1] \in ClosedKeys(kv)})
    IN  /\ \A n \in 1..Len(kv) : closes(n) <= opens(n)
        /\ closes(Len(kv)) = opens(Len(kv))

\* C26: the section tags are the keys that appear as closing tags; in the
\* walk the SUBMISSION tag is skipped, a closing tag pops the path, an
\* opening tag with a value inserts a scalar at the path, one without a
\* value inserts an empty object and pushes its key if it is a section tag
\* and an empty string if not; with properly nested sections the path is
\* empty at the end.
C26_ArchiveWalk ==
    (treePc \in {"tags", "done"} /\ callArgs.fn = "parse_archive_metadata")
        => /\ path = StatedStack(Keyvals, lineNo, callArgs.standardize)
           /\ root = StatedArchiveTree(Keyvals, lineNo, callArgs.standardize)
           /\ (treePc = "done" /\ ProperlyNested(Keyvals)) => path = <<>>
           /\ treePc = "done" => Unwrap(callRet) = root

\* C26 witness: a scalar and an empty string inside a section inside the
\* SUBMISSION tags, all walked, the path empty again.
C26_Witness ==
    /\ treePc = "done" /\ callArgs.fn = "parse_archive_metadata"
    /\ callArgs.standardize
    /\ callArgs.data = ArchiveData(<<A_FILER, A_CITY_x, A_CITY, A_FILER_end>>, TRUE)
    /\ ProperlyNested(Keyvals)
    /\ path = <<>>
    /\ root = MapInsert(EmptyMap, K_filer,
                        MvObject(MapInsert(EmptyMap, K_city,
                                           MvList(<<MvString(<<120>>), MvString(<<>>)>>))))

(***************************************************************************)
(* SpecClean: clean_document_content on payloads made of wrapper tags,     *)
(* blanks and text                                                         *)
(***************************************************************************)

MaxCleanPieces == 5

W_PDF == <<60,80,68,70,62>>  \* "<PDF>"
W_PDF_end == <<60,47,80,68,70,62>>  \* "</PDF>"
W_XBRL == <<60,88,66,82,76,62>>  \* "<XBRL>"
W_XBRL_end == <<60,47,88,66,82,76,62>>  \* "</XBRL>"
W_XML == <<60,88,77,76,62>>  \* "<XML>"
W_XML_end == <<60,47,88,77,76,62>>  \* "</XML>"

\* The wrappers: an opening tag and its closing tag.
Wrappers == {<<W_PDF, W_PDF_end>>, <<W_XBRL, W_XBRL_end>>, <<W_XML, W_XML_end>>}

\* What payloads are made of: tags of two wrappers, a blank, text.
CleanPieces == {W_PDF, W_PDF_end, W_XML, W_XML_end, <<32>>, <<97,98>>}

CleanInit ==
    /\ \E ps \in SeqsUpTo(CleanPieces, MaxCleanPieces),
          f \in {"Archive", "TabDefault"}, b \in BOOLEAN :
          callArgs = [fn |-> "clean_document_content", content |-> Concat(ps),
                      format |-> f, isBinary |-> b]
    /\ callRet = None
    /\ callPc = "in"
    /\ KeyIdle /\ UuIdle /\ TreeIdle /\ ParseIdle /\ TarIdle

CleanDocumentContentCall ==
    /\ callPc = "in"
    /\ callArgs.fn = "clean_document_content"
    /\ callRet' = Some(CleanDocumentContent(callArgs.content, callArgs.format,
                                            callArgs.isBinary))
    /\ callPc' = "returned"
    /\ UNCHANGED <<callArgs, notCall>>

CleanNext == CleanDocumentContentCall

SpecClean == CleanInit /\ [][CleanNext]_vars

\* The wrappers the trimmed payload t has as a pair at its ends.
PairsAtEnds(t) ==
    {w \in Wrappers : /\ StartsWith(t, w[1]) /\ EndsWith(t, w[2])
                      /\ Len(t) >= Len(w[1]) + Len(w[2])}

\* The payload as the statement has it: trimmed, and without the two tags
\* of a wrapper pair at its ends if there is one.
StatedClean(content) ==
    LET t == Trim(content)
    IN  IF PairsAtEnds(t) = {} THEN t
        ELSE LET w == CHOOSE x \in PairsAtEnds(t) : TRUE
             IN  SubSeq(t, Len(w[1]) + 1, Len(t) - Len(w[2]))

CleanReturned == callPc = "returned" /\ callArgs.fn = "clean_document_content"

\* C27: clean_document_content trims the payload and strips a wrapper only
\* as a pair at the payload's ends: both tags of <PDF>, <XBRL> or <XML> when
\* the payload begins with the one and ends with its closing tag, nothing
\* but the outer whitespace otherwise (blanks left next to a removed tag
\* are not counted).
C27_WrapperPair ==
    CleanReturned => Trim(Unwrap(callRet)) = Trim(StatedClean(callArgs.content))

\* C27, on payloads with a pair at the ends, or with neither an opening
\* wrapper tag at the start nor a closing one at the end: the result is as
\* stated.
C27_PairOrNeither ==
    LET t == Trim(callArgs.content)
    IN  (/\ CleanReturned
         /\ \/ PairsAtEnds(t) # {}
            \/ /\ \A w \in Wrappers : ~StartsWith(t, w[1])
               /\ \A w \in Wrappers : ~EndsWith(t, w[2]))
            => Trim(Unwrap(callRet)) = Trim(StatedClean(callArgs.content))

\* C27 witness: the payload of the test, a pair around text, both removed.
C27_PairRemoved ==
    /\ CleanReturned
    /\ callArgs.content = <<32>> \o W_PDF \o <<97,98>> \o W_PDF_end \o <<32>>
    /\ callArgs.format = "Archive" /\ ~callArgs.isBinary
    /\ Unwrap(callRet) = <<97,98>>

\* C27: an opening tag without its closing tag is removed all the same.
C27_LoneTagRemoved ==
    /\ CleanReturned
    /\ callArgs.content = W_PDF \o <<97,98>>
    /\ callArgs.format = "Archive" /\ ~callArgs.isBinary
    /\ Unwrap(callRet) = <<97,98>>

(***************************************************************************)
(* SpecPrivacy: parse_submission_metadata on headers behind a privacy      *)
(* banner                                                                  *)
(***************************************************************************)

MaxPrivacyLines == 3

P_BEGIN == <<45,45,45,45,45,66,69,71,73,78>>  \* "-----BEGIN"
P_Proc == <<80,114,111,99,45,84,121,112,101,58,32,50,48,48,49>>  \* "Proc-Type: 2001"
P_FILER == <<70,73,76,69,82,58>>  \* "FILER:"
P_CITY_2 == <<9,67,73,84,89,58,9,50>>  \* "<tab>CITY:<tab>2"
P_3 == <<51>>  \* "3"
P_PEM_x == K_PRIVACY_ENHANCED_MESSAGE \o <<58,9,120>>  \* "PRIVACY-ENHANCED-MESSAGE:<tab>x"

\* "<tab>CITY:<tab>2...2", a line of WrapLen bytes.
P_CITY_long == P_CITY_2 \o LineOf(WrapLen - Len(P_CITY_2), 50)

\* The banners: one line, two lines.
PrivacyBanners == {P_BEGIN, P_BEGIN \o <<10>> \o P_Proc}

\* The lines after the banner.
PrivacyLines == {P_FILER, P_CITY_2, P_CITY_long, P_3, P_PEM_x, <<>>}

\* The header: the banner, a blank line, and the lines, LF after each.
PrivacyData(banner, ls) ==
    banner \o <<10, 10>> \o Concat([i \in 1..Len(ls) |-> ls[i] \o <<10>>])

PrivacyInit ==
    /\ \E banner \in PrivacyBanners,
          ls \in SeqsUpTo(PrivacyLines, MaxPrivacyLines), s \in BOOLEAN :
          callArgs = [fn |-> "parse_submission_metadata",
                      data |-> PrivacyData(banner, ls), standardize |-> s]
    /\ callRet = None
    /\ callPc = "in"
    /\ KeyIdle /\ UuIdle /\ TreeIdle /\ ParseIdle /\ TarIdle

ParseSubmissionMetadataCall ==
    /\ callPc = "in"
    /\ callArgs.fn = "parse_submission_metadata"
    /\ callRet' = Some(ParseSubmissionMetadata(callArgs.data, callArgs.standardize))
    /\ callPc' = "returned"
    /\ UNCHANGED <<callArgs, notCall>>

PrivacyNext == ParseSubmissionMetadataCall

SpecPrivacy == PrivacyInit /\ [][PrivacyNext]_vars

\* The positions of the blank lines: an LF right after an LF.
BlankLinesOf(data) == {i \in 1..(Len(data) - 1) : data[i] = 10 /\ data[i + 1] = 10}

\* The text preceding the first blank line and the remainder after it.
PrecedingText(data) == SubSeq(data, 1, Least(BlankLinesOf(data)) - 1)
Remainder(data) == SubSeq(data, Least(BlankLinesOf(data)) + 2, Len(data))

\* The key of the preceding text.
PrivacyKey(standardize) ==
    IF standardize THEN K_privacy_enhanced_message ELSE K_PRIVACY_ENHANCED_MESSAGE

\* The tree as the statement has it: the TabDefault tree of the remainder
\* and the preceding text under its key.
StatedPrivacyTree(data, standardize) ==
    MapInsert(ParseTabMetadata(Remainder(data), standardize),
              PrivacyKey(standardize), MvString(BytesToString(PrecedingText(data))))

\* A TabPrivacy header with a blank line was parsed.
PrivacySplit ==
    /\ callPc = "returned" /\ callArgs.fn = "parse_submission_metadata"
    /\ Unwrap(callRet).format = "TabPrivacy"
    /\ BlankLinesOf(callArgs.data) # {}

\* C28: a TabPrivacy header is split at its first blank line; the tree is
\* the TabDefault tree of the remainder plus the preceding text, a string
\* under privacy-enhanced-message (PRIVACY-ENHANCED-MESSAGE with
\* standardization off).
C28_RemainderAsTabDefault ==
    PrivacySplit
        => Unwrap(callRet).fields = StatedPrivacyTree(callArgs.data, callArgs.standardize)

\* The first line of the remainder that is not blank begins with neither a
\* tab nor a space.
FirstLineFlush(data) ==
    LET r == Remainder(data)
        n == Len(r) - Len(TrimStart(r))
    IN  n = 0 \/ r[n] = 10

\* C28, on headers whose remainder begins flush left: the tree is as
\* stated.
C28_WhereFlushLeft ==
    (PrivacySplit /\ FirstLineFlush(callArgs.data))
        => Unwrap(callRet).fields = StatedPrivacyTree(callArgs.data, callArgs.standardize)

\* C28 witness: a banner of two lines, a blank line, a section and a scalar
\* in it; the tree has the section and the banner.
C28_BannerAndTree ==
    /\ PrivacySplit
    /\ callArgs.standardize
    /\ callArgs.data = PrivacyData(P_BEGIN \o <<10>> \o P_Proc, <<P_FILER, P_CITY_2>>)
    /\ Unwrap(callRet).fields
          = MapInsert(MapInsert(EmptyMap, K_filer,
                                MvObject(MapInsert(EmptyMap, K_city, MvString(<<50>>)))),
                      K_privacy_enhanced_message,
                      MvString(P_BEGIN \o <<10>> \o P_Proc))

\* C28: the remainder begins with an indented line of WrapLen bytes; as a
\* TabDefault header the next line continues it, behind the banner it does
\* not.
C28_NotContinued ==
    /\ PrivacySplit
    /\ ~callArgs.standardize
    /\ callArgs.data = PrivacyData(P_BEGIN, <<P_CITY_long, P_3>>)
    /\ Unwrap(callRet).fields[K_CITY] = MvString(LineOf(WrapLen - Len(P_CITY_2) + 1, 50))
    /\ ParseTabMetadata(Remainder(callArgs.data), FALSE)[K_CITY]
          = MvString(LineOf(WrapLen - Len(P_CITY_2) + 1, 50) \o P_3)

\* C28: a line of the remainder under the banner's key is replaced by the
\* banner.
C28_Overwritten ==
    /\ PrivacySplit
    /\ ~callArgs.standardize
    /\ callArgs.data = PrivacyData(P_BEGIN, <<P_PEM_x>>)
    /\ Unwrap(callRet).fields = MapInsert(EmptyMap, K_PRIVACY_ENHANCED_MESSAGE, MvString(P_BEGIN))

(***************************************************************************)
(* Claims about navigation through lists                                   *)
(***************************************************************************)

RECURSIVE Reach(_, _)
\* The map the path p leads to from the map r as the statement has it: by
\* an object, or by the most recently appended element of a list when that
\* is an object; None where it leads nowhere.
Reach(r, p) ==
    IF p = <<>> THEN Some(r)
    ELSE IF p[1] \notin DOMAIN r THEN None
    ELSE LET cur == r[p[1]]
         IN  IF cur.t = "Object" THEN Reach(cur.o, Tail(p))
             ELSE IF cur.t = "List" /\ cur.l # <<>> /\ cur.l[Len(cur.l)].t = "Object"
             THEN Reach(cur.l[Len(cur.l)].o, Tail(p))
             ELSE None

\* From the tree before to the tree after, the step down the path by key x
\* in map m (m2 after) leaves every other key of the map as it is, and of a
\* list under x every element but the last.
OnlyLastChanged(m, m2, x) ==
    /\ DOMAIN m2 = DOMAIN m
    /\ \A y \in DOMAIN m \ {x} : m2[y] = m[y]
    /\ m2[x].t = m[x].t
    /\ m[x].t = "List" =>
          /\ Len(m2[x].l) = Len(m[x].l)
          /\ \A j \in 1..(Len(m[x].l) - 1) : m2[x].l[j] = m[x].l[j]

\* The step from root to root' inserted v with key k at path p: the path is
\* navigable, the entry is in the map the path leads to, and nothing else
\* of the tree has changed.
InsertedAt(p, k, v) ==
    /\ IsSome(Reach(root, p))
    /\ Reach(root', p) = Some(InsertOrAppend(Unwrap(Reach(root, p)), k, v))
    /\ \A i \in 1..Len(p) :
          OnlyLastChanged(Unwrap(Reach(root, SubSeq(p, 1, i - 1))),
                          Unwrap(Reach(root', SubSeq(p, 1, i - 1))), p[i])

\* C29: every insert whose path passes through a key promoted to a list
\* lands in the most recently appended object element of the list; the
\* earlier elements are left unchanged, and no entry is discarded because
\* its path cannot be navigated.
C29_LandsInLastElement ==
    [][\A indent \in 0..MaxIndent, k \in TreeKeys :
          /\ TabSectionLine(indent, k)
                => InsertedAt(Truncate(path, indent), k, MvObject(EmptyMap))
          /\ TabScalarLine(indent, k)
                => InsertedAt(Truncate(path, indent), k, MvString(LineValue(lineNo + 1)))]_vars

\* C29 witness: a section key was repeated at the root scope; the scalar of
\* the line after each section is in that section's element of the list.
C29_Witness ==
    /\ treePc = "lines"
    /\ lineNo = 4
    /\ path = <<K_filer>>
    /\ root = MapInsert(EmptyMap, K_filer,
                 MvList(<<MvObject(MapInsert(EmptyMap, K_city, MvString(LineValue(2)))),
                          MvObject(MapInsert(EmptyMap, K_city, MvString(LineValue(4))))>>))

(***************************************************************************)
(* Claims about the byte ranges of metadata.json under a filter            *)
(***************************************************************************)

\* Entry i of metadata.json gives a range of its own size: neither offset
\* is the placeholder, and end - start is the entry's secsgml_size_bytes.
RangeIsSize(i) ==
    LET doc == tarMetadata.documents[i]
    IN  /\ IsSome(doc.start_byte) /\ IsSome(doc.end_byte)
        /\ Unwrap(doc.start_byte) # PLACEHOLDER
        /\ Unwrap(doc.end_byte) # PLACEHOLDER
        /\ EndOf(i) = UAdd(StartOf(i), doc.size_bytes)

\* C30: in the archive written for a submission of parse_sgml, under every
\* combination of filter and retention options, every document entry of
\* metadata.json has secsgml_end_byte - secsgml_start_byte equal to its
\* secsgml_size_bytes: none keeps the placeholder 9999999999 and none
\* carries the range of another document's payload.
C30_RangeIsOwnSize ==
    tarPc = "done" => \A i \in 1..Len(tarMetadata.documents) : RangeIsSize(i)

\* C30, where the payload list is parallel to the metadata list (no filter,
\* a filter without retention, or a filter that keeps every document):
\* every entry's range has the entry's size.
C30_WhereParallel ==
    (tarPc = "done" /\ ListsParallel)
        => \A i \in 1..Len(tarMetadata.documents) : RangeIsSize(i)

\* C30: the filter kept the second of two documents and the metadata of
\* both; the first entry carries the range of the second document's
\* payload and the second entry keeps the placeholder.
C30_RetainedEntryMisplaced ==
    /\ tarPc = "done"
    /\ Len(tarMetadata.documents) = 2 /\ Len(submission.documents) = 1
    /\ tarMetadata.documents[1].fields[K_type] = V_EX_99
    /\ tarMetadata.documents[2].fields[K_type] = V_10_K
    /\ tarMetadata.documents[1].size_bytes = U(0)
    /\ EndOf(1) = UAdd(StartOf(1), RunLen(submission.documents[1]))
    /\ RunLen(submission.documents[1]) = U(3)
    /\ tarMetadata.documents[2].start_byte = Some(PLACEHOLDER)
    /\ tarMetadata.documents[2].end_byte = Some(PLACEHOLDER)

\* C30: with lists in parallel two entries carry their own ranges.
C30_OwnRanges ==
    /\ tarPc = "done" /\ ListsParallel
    /\ Len(tarMetadata.documents) = 2
    /\ tarMetadata.documents[1].size_bytes = U(3)
    /\ tarMetadata.documents[2].size_bytes = U(BLOCK_SIZE)
    /\ RangeIsSize(1) /\ RangeIsSize(2)

=============================================================================
